---- MODULE Spec2Model ----
(***************************************************************************)
(* A model of the ray tracer's intersection engine, world assembly,        *)
(* recursive shading, material blending and parallel camera driver.        *)
(*                                                                         *)
(* Numbers.  The program computes in f64.  The model keeps every quantity  *)
(* exact by working on integer grids:                                      *)
(*   - ray parameters t and coordinates on the probe axis are integers in  *)
(*     units of 1/GridPerUnit (the nested-sphere probes) or of the shading *)
(*     offset 0.01 (the shading pipeline);                                 *)
(*   - contributions are numerators over ContribDen, reflectivities are    *)
(*     numerators over ReflDen, refractive indices numerators over IdxDen and   *)
(*     cosines numerators over CosDen.                                     *)
(* NaN and infinities are outside the model.                               *)
(*                                                                         *)
(* Option<T> is modelled as a sequence: <<>> is None, <<x>> is Some(x).    *)
(***************************************************************************)
EXTENDS Integers, Sequences, FiniteSets, TLC

VARIABLES
    \* Intersections (src/src/intersect.rs)
    hits,        \* Intersections.hits: sequence of [t, object_index]
    sorted,      \* Intersections.sorted
    hitResult,   \* the value returned by the last hit() since the last add/clear
    probe,       \* the probe origin whose crossings were recorded, <<>> if none
    \* World (src/src/world.rs)
    objects,     \* World.objects: sequence of objects, index order
    light,       \* World.light
    returned,    \* the ObjectIndex values add_object returned, in call order
    added,       \* the objects handed to add_object, in call order
    \* One evaluation of World::color_at
    pc,          \* "idle", "call" (color_at_inner about to run on ray), "done"
    ray,         \* the ray of the pending color_at_inner call
    total_reflectivity,  \* its total_reflectivity argument, over ContribDen
    shade,       \* what the last color_at_inner call computed
    \* Material (src/src/material.rs): inputs of one shading call and results
    matIn,       \* the material, the neighbouring material, the geometry and
                 \* what the two secondary rays bring back
    refractedResult,   \* result of Material::refracted_color on matIn
    reflectanceResult, \* result of Material::reflectance on matIn
    matColor,    \* result of Material::color_at on matIn
    \* Camera (src/src/camera.rs): one render / u32_buffer call
    cam,         \* Camera.hsize and Camera.vsize
    renderPc,    \* "idle", "running", "returned"
    renderFn,    \* "none", "render" or "u32_buffer"
    nextRow,     \* position of the row iterator the workers share
    workers,     \* per worker: the row it holds and its loop variable x
    buf          \* the output buffer: per element, the writes it received

hitVars == <<hits, sorted, hitResult, probe>>

worldVars == <<objects, light, returned, added>>

shadeVars == <<pc, ray, total_reflectivity, shade>>

matVars == <<matIn, refractedResult, reflectanceResult, matColor>>

renderVars == <<cam, renderPc, renderFn, nextRow, workers, buf>>

None == <<>>

Some(x) == <<x>>

\* State of the operations modelled further below, each group with the
\* value it keeps while other operations run
VARIABLES
    \* Camera::color_at (src/src/camera.rs): one oversampled pixel
    sampling,   \* the call's camera.oversample, its loop variables and accumulator
    sampleCalls,   \* the World::color_at calls made so far, in order
    pixelColor   \* the colour returned, <<>> until the call returns

sampleVars == <<sampling, sampleCalls, pixelColor>>

InitSampleIdle ==
    /\ sampling = [oversample |-> 1, xo |-> 1, yo |-> 1, acc |-> 0]
    /\ sampleCalls = <<>>
    /\ pixelColor = None

VARIABLES
    \* Mat<4> (src/src/math/matrices.rs): a matrix built by a chain of builder calls
    matStart,   \* the matrix the chain started from
    mat,   \* the matrix built so far
    chain,   \* the builder calls made, in order
    inv   \* Some(mat.inverse()) once computed

matrixVars == <<matStart, mat, chain, inv>>

InitMatrixIdle ==
    /\ matStart = [num |-> << <<1, 0, 0, 0>>, <<0, 1, 0, 0>>, <<0, 0, 1, 0>>, <<0, 0, 0, 1>> >>, den |-> 1]
    /\ mat = matStart
    /\ chain = <<>>
    /\ inv = None

VARIABLES
    \* Object (src/src/object/object.rs): an object under its builder calls
    object,   \* the Object: transform (world to object), transp_transform, material
    objectCalls   \* the with_transform / with_material calls made, in order

objectVars == <<object, objectCalls>>

InitObjectIdle ==
    /\ object = [transform |-> [num |-> << <<1, 0, 0, 0>>, <<0, 1, 0, 0>>, <<0, 0, 1, 0>>, <<0, 0, 0, 1>> >>, den |-> 1],
                 transp_transform |-> [num |-> << <<1, 0, 0, 0>>, <<0, 1, 0, 0>>, <<0, 0, 1, 0>>, <<0, 0, 0, 1>> >>, den |-> 1],
                 material |-> [reflectivity |-> 0, transparency |-> 0, refractive_index |-> 2]]
    /\ objectCalls = <<>>

VARIABLES
    \* Material (src/src/material.rs): a material under its with_* builder calls
    builtMaterial,   \* the Material built so far, all fields
    debugAssertions,   \* whether the build keeps debug_assert! (debug profile) or drops it (release)
    builderPanicked   \* a builder call panicked: no Material was returned

builderVars == <<builtMaterial, debugAssertions, builderPanicked>>

InitBuilderIdle ==
    /\ builtMaterial = [pattern |-> "white", ambient |-> 1, diffuse |-> 9, specular |-> 9,
                        shininess |-> 2000, reflectivity |-> 0, transparency |-> 0,
                        refractive_index |-> 2]
    /\ debugAssertions = TRUE
    /\ builderPanicked = FALSE

VARIABLES
    \* Camera::view_transform (src/src/camera.rs): one call
    viewIn,   \* the arguments from, to and up of the last call
    viewOut   \* Some(matrix returned), <<>> before any call

viewVars == <<viewIn, viewOut>>

InitViewIdle ==
    /\ viewIn = [from |-> <<0, 0, 0>>, to |-> <<0, 0, 0 - 1>>, up |-> <<0, 1, 0>>]
    /\ viewOut = None

VARIABLES
    \* Canvas::write_ppm (src/src/canvas.rs): one call
    canvas,   \* the Canvas: width, height and pixels (colour components in thousandths)
    ppmPc,   \* "idle", "rows" (inside the loop over y) or "done"
    ppmLoop,   \* the loop variables y, linelen, sep and the index i of the next value of the row
    ppmOut   \* the text written so far, as tokens

canvasVars == <<canvas, ppmPc, ppmLoop, ppmOut>>

InitCanvasIdle ==
    /\ canvas = [width |-> 1, height |-> 1, pixels |-> << <<0, 0, 0>> >>]
    /\ ppmPc = "idle"
    /\ ppmLoop = [y |-> 0, i |-> 0, linelen |-> 0, sep |-> ""]
    /\ ppmOut = <<>>

VARIABLES
    \* A chain of secondary rays (src/src/material.rs): World::color_at at contribution 1.0 and the reflection / refraction rays cast below it
    pathTotal,   \* total_contribution of the innermost call, over ContribDen
    pathSteps   \* the secondary rays cast along the chain, outermost first

pathVars == <<pathTotal, pathSteps>>

InitPathIdle ==
    /\ pathTotal = 100000 * 4096
    /\ pathSteps = <<>>

VARIABLES
    \* World::point_is_shadowed (src/src/world.rs): the last call
    shadow   \* the point asked about, the shadow ray's intersections, what hit returned and the result

shadowVars == <<shadow>>

InitShadowIdle ==
    /\ shadow = [called |-> FALSE]

VARIABLES
    \* World::precompute / Comps::prepare (src/src/world.rs, src/src/render.rs): one call
    compsIn,   \* the ray direction and the normal the object gives at the point
    compsOut   \* Some of eyev, normalv and inside as computed, <<>> before the call

compsVars == <<compsIn, compsOut>>

InitCompsIdle ==
    /\ compsIn = [direction |-> <<0, 0, 1>>, normal |-> <<0, 0, 0 - 1>>]
    /\ compsOut = None

VARIABLES
    \* Sphere, Cube and Plane intersect (src/src/sphere.rs, src/src/csg/object/cube.rs, src/src/object/plane.rs): one call
    shapeCall,   \* the shape, the object-space ray and the ObjectIndex of the call
    shapeBefore,   \* the intersections the set held before the call
    shapeInters   \* the intersections the set holds

shapeVars == <<shapeCall, shapeBefore, shapeInters>>

InitShapeIdle ==
    /\ shapeCall = [kind |-> "none"]
    /\ shapeBefore = <<>>
    /\ shapeInters = <<>>

VARIABLES
    \* Cube::normal (src/src/csg/object/cube.rs): one call
    normalIn,   \* the object-space point
    normalOut   \* Some(the vector returned), <<>> before the call

normalVars == <<normalIn, normalOut>>

InitNormalIdle ==
    /\ normalIn = <<1, 1, 1>>
    /\ normalOut = None

VARIABLES
    \* Intersections::hit (src/src/intersect.rs), one call followed iteration by iteration
    loopPc,   \* "idle" before the call, "loop" inside the for loop, "returned" after it
    loopHits,   \* self.hits as sort() left them
    loopPos,   \* how many of them the loop has processed
    loopContainers,   \* the local containers
    loopFrom,   \* the local from_obj
    loopResult   \* Some(the pair returned), <<>> until then

loopVars == <<loopPc, loopHits, loopPos, loopContainers, loopFrom, loopResult>>

InitLoopIdle ==
    /\ loopPc = "idle"
    /\ loopHits = <<>>
    /\ loopPos = 0
    /\ loopContainers = <<>>
    /\ loopFrom = <<>>
    /\ loopResult = <<>>

VARIABLES
    \* PixelIterator (src/src/camera.rs)
    pixIter,   \* Some(the PixelIterator), <<>> before into_iter
    pixYielded,   \* the coordinates next() has returned, in order
    pixLast   \* <<r>> for the last return value r of next(), <<>> before the first call

pixelVars == <<pixIter, pixYielded, pixLast>>

InitPixelIdle ==
    /\ pixIter = <<>>
    /\ pixYielded = <<>>
    /\ pixLast = <<>>

VARIABLES
    \* display (src/src/display.rs): the window, the event loop and the closure's captured state
    display,   \* the flag Space sets
    cur_width,   \* width last rendered
    cur_height,   \* height last rendered
    buffer,   \* the cached buffer: its length and what fills it
    control_flow,   \* the event loop's ControlFlow
    window_size,   \* <<width, height>> that window().inner_size() returns
    eventLoop,   \* "running", "destroyed" after LoopDestroyed, "panicked"
    lastRedraw   \* Some(what the last RedrawRequested did), <<>> before the first

displayVars == <<display, cur_width, cur_height, buffer, control_flow, window_size, eventLoop, lastRedraw>>

InitDisplayIdle ==
    /\ display = FALSE
    /\ cur_width = 0
    /\ cur_height = 0
    /\ buffer = [len |-> 0, fill |-> "zero"]
    /\ control_flow = "Poll"
    /\ window_size = <<1, 1>>
    /\ eventLoop = "running"
    /\ lastRedraw = <<>>

coreVars == <<hitVars, worldVars, shadeVars, matVars, renderVars>>

laterVars == <<sampleVars, matrixVars, objectVars, builderVars, viewVars, canvasVars, pathVars, shadowVars, compsVars, shapeVars, normalVars, loopVars, pixelVars, displayVars>>

\* everything outside the sample group
sampleFrame == <<coreVars, matrixVars, objectVars, builderVars, viewVars, canvasVars, pathVars, shadowVars, compsVars, shapeVars, normalVars, loopVars, pixelVars, displayVars>>

sampleOthersIdle ==
    /\ InitMatrixIdle
    /\ InitObjectIdle
    /\ InitBuilderIdle
    /\ InitViewIdle
    /\ InitCanvasIdle
    /\ InitPathIdle
    /\ InitShadowIdle
    /\ InitCompsIdle
    /\ InitShapeIdle
    /\ InitNormalIdle
    /\ InitLoopIdle
    /\ InitPixelIdle
    /\ InitDisplayIdle

\* everything outside the matrix group
matrixFrame == <<coreVars, sampleVars, objectVars, builderVars, viewVars, canvasVars, pathVars, shadowVars, compsVars, shapeVars, normalVars, loopVars, pixelVars, displayVars>>

matrixOthersIdle ==
    /\ InitSampleIdle
    /\ InitObjectIdle
    /\ InitBuilderIdle
    /\ InitViewIdle
    /\ InitCanvasIdle
    /\ InitPathIdle
    /\ InitShadowIdle
    /\ InitCompsIdle
    /\ InitShapeIdle
    /\ InitNormalIdle
    /\ InitLoopIdle
    /\ InitPixelIdle
    /\ InitDisplayIdle

\* everything outside the object group
objectFrame == <<coreVars, sampleVars, matrixVars, builderVars, viewVars, canvasVars, pathVars, shadowVars, compsVars, shapeVars, normalVars, loopVars, pixelVars, displayVars>>

objectOthersIdle ==
    /\ InitSampleIdle
    /\ InitMatrixIdle
    /\ InitBuilderIdle
    /\ InitViewIdle
    /\ InitCanvasIdle
    /\ InitPathIdle
    /\ InitShadowIdle
    /\ InitCompsIdle
    /\ InitShapeIdle
    /\ InitNormalIdle
    /\ InitLoopIdle
    /\ InitPixelIdle
    /\ InitDisplayIdle

\* everything outside the builder group
builderFrame == <<coreVars, sampleVars, matrixVars, objectVars, viewVars, canvasVars, pathVars, shadowVars, compsVars, shapeVars, normalVars, loopVars, pixelVars, displayVars>>

builderOthersIdle ==
    /\ InitSampleIdle
    /\ InitMatrixIdle
    /\ InitObjectIdle
    /\ InitViewIdle
    /\ InitCanvasIdle
    /\ InitPathIdle
    /\ InitShadowIdle
    /\ InitCompsIdle
    /\ InitShapeIdle
    /\ InitNormalIdle
    /\ InitLoopIdle
    /\ InitPixelIdle
    /\ InitDisplayIdle

\* everything outside the view group
viewFrame == <<coreVars, sampleVars, matrixVars, objectVars, builderVars, canvasVars, pathVars, shadowVars, compsVars, shapeVars, normalVars, loopVars, pixelVars, displayVars>>

viewOthersIdle ==
    /\ InitSampleIdle
    /\ InitMatrixIdle
    /\ InitObjectIdle
    /\ InitBuilderIdle
    /\ InitCanvasIdle
    /\ InitPathIdle
    /\ InitShadowIdle
    /\ InitCompsIdle
    /\ InitShapeIdle
    /\ InitNormalIdle
    /\ InitLoopIdle
    /\ InitPixelIdle
    /\ InitDisplayIdle

\* everything outside the canvas group
canvasFrame == <<coreVars, sampleVars, matrixVars, objectVars, builderVars, viewVars, pathVars, shadowVars, compsVars, shapeVars, normalVars, loopVars, pixelVars, displayVars>>

canvasOthersIdle ==
    /\ InitSampleIdle
    /\ InitMatrixIdle
    /\ InitObjectIdle
    /\ InitBuilderIdle
    /\ InitViewIdle
    /\ InitPathIdle
    /\ InitShadowIdle
    /\ InitCompsIdle
    /\ InitShapeIdle
    /\ InitNormalIdle
    /\ InitLoopIdle
    /\ InitPixelIdle
    /\ InitDisplayIdle

\* everything outside the path group
pathFrame == <<coreVars, sampleVars, matrixVars, objectVars, builderVars, viewVars, canvasVars, shadowVars, compsVars, shapeVars, normalVars, loopVars, pixelVars, displayVars>>

pathOthersIdle ==
    /\ InitSampleIdle
    /\ InitMatrixIdle
    /\ InitObjectIdle
    /\ InitBuilderIdle
    /\ InitViewIdle
    /\ InitCanvasIdle
    /\ InitShadowIdle
    /\ InitCompsIdle
    /\ InitShapeIdle
    /\ InitNormalIdle
    /\ InitLoopIdle
    /\ InitPixelIdle
    /\ InitDisplayIdle

\* everything outside the shadow group
shadowFrame == <<coreVars, sampleVars, matrixVars, objectVars, builderVars, viewVars, canvasVars, pathVars, compsVars, shapeVars, normalVars, loopVars, pixelVars, displayVars>>

shadowOthersIdle ==
    /\ InitSampleIdle
    /\ InitMatrixIdle
    /\ InitObjectIdle
    /\ InitBuilderIdle
    /\ InitViewIdle
    /\ InitCanvasIdle
    /\ InitPathIdle
    /\ InitCompsIdle
    /\ InitShapeIdle
    /\ InitNormalIdle
    /\ InitLoopIdle
    /\ InitPixelIdle
    /\ InitDisplayIdle

\* everything outside the comps group
compsFrame == <<coreVars, sampleVars, matrixVars, objectVars, builderVars, viewVars, canvasVars, pathVars, shadowVars, shapeVars, normalVars, loopVars, pixelVars, displayVars>>

compsOthersIdle ==
    /\ InitSampleIdle
    /\ InitMatrixIdle
    /\ InitObjectIdle
    /\ InitBuilderIdle
    /\ InitViewIdle
    /\ InitCanvasIdle
    /\ InitPathIdle
    /\ InitShadowIdle
    /\ InitShapeIdle
    /\ InitNormalIdle
    /\ InitLoopIdle
    /\ InitPixelIdle
    /\ InitDisplayIdle

\* everything outside the shape group
shapeFrame == <<coreVars, sampleVars, matrixVars, objectVars, builderVars, viewVars, canvasVars, pathVars, shadowVars, compsVars, normalVars, loopVars, pixelVars, displayVars>>

shapeOthersIdle ==
    /\ InitSampleIdle
    /\ InitMatrixIdle
    /\ InitObjectIdle
    /\ InitBuilderIdle
    /\ InitViewIdle
    /\ InitCanvasIdle
    /\ InitPathIdle
    /\ InitShadowIdle
    /\ InitCompsIdle
    /\ InitNormalIdle
    /\ InitLoopIdle
    /\ InitPixelIdle
    /\ InitDisplayIdle

\* everything outside the normal group
normalFrame == <<coreVars, sampleVars, matrixVars, objectVars, builderVars, viewVars, canvasVars, pathVars, shadowVars, compsVars, shapeVars, loopVars, pixelVars, displayVars>>

normalOthersIdle ==
    /\ InitSampleIdle
    /\ InitMatrixIdle
    /\ InitObjectIdle
    /\ InitBuilderIdle
    /\ InitViewIdle
    /\ InitCanvasIdle
    /\ InitPathIdle
    /\ InitShadowIdle
    /\ InitCompsIdle
    /\ InitShapeIdle
    /\ InitLoopIdle
    /\ InitPixelIdle
    /\ InitDisplayIdle

\* everything outside the loop group
loopFrame == <<coreVars, sampleVars, matrixVars, objectVars, builderVars, viewVars, canvasVars, pathVars, shadowVars, compsVars, shapeVars, normalVars, pixelVars, displayVars>>

loopOthersIdle ==
    /\ InitSampleIdle
    /\ InitMatrixIdle
    /\ InitObjectIdle
    /\ InitBuilderIdle
    /\ InitViewIdle
    /\ InitCanvasIdle
    /\ InitPathIdle
    /\ InitShadowIdle
    /\ InitCompsIdle
    /\ InitShapeIdle
    /\ InitNormalIdle
    /\ InitPixelIdle
    /\ InitDisplayIdle

\* everything outside the pixel group
pixelFrame == <<coreVars, sampleVars, matrixVars, objectVars, builderVars, viewVars, canvasVars, pathVars, shadowVars, compsVars, shapeVars, normalVars, loopVars, displayVars>>

pixelOthersIdle ==
    /\ InitSampleIdle
    /\ InitMatrixIdle
    /\ InitObjectIdle
    /\ InitBuilderIdle
    /\ InitViewIdle
    /\ InitCanvasIdle
    /\ InitPathIdle
    /\ InitShadowIdle
    /\ InitCompsIdle
    /\ InitShapeIdle
    /\ InitNormalIdle
    /\ InitLoopIdle
    /\ InitDisplayIdle

\* everything outside the display group
displayFrame == <<coreVars, sampleVars, matrixVars, objectVars, builderVars, viewVars, canvasVars, pathVars, shadowVars, compsVars, shapeVars, normalVars, loopVars, pixelVars>>

displayOthersIdle ==
    /\ InitSampleIdle
    /\ InitMatrixIdle
    /\ InitObjectIdle
    /\ InitBuilderIdle
    /\ InitViewIdle
    /\ InitCanvasIdle
    /\ InitPathIdle
    /\ InitShadowIdle
    /\ InitCompsIdle
    /\ InitShapeIdle
    /\ InitNormalIdle
    /\ InitLoopIdle
    /\ InitPixelIdle

InitLaterIdle ==
    /\ InitSampleIdle
    /\ InitMatrixIdle
    /\ InitObjectIdle
    /\ InitBuilderIdle
    /\ InitViewIdle
    /\ InitCanvasIdle
    /\ InitPathIdle
    /\ InitShadowIdle
    /\ InitCompsIdle
    /\ InitShapeIdle
    /\ InitNormalIdle
    /\ InitLoopIdle
    /\ InitPixelIdle
    /\ InitDisplayIdle

vars == <<coreVars, laterVars>>

\* (end of the state groups)

(***************************************************************************)
(* Bounds of the Intersections model.                                      *)
(***************************************************************************)
MaxHits == 3

MaxT == 1

NumObjects == 2

TRange == (0 - MaxT)..MaxT

ObjectIndexes == 0..(NumObjects - 1)

Intersection(t, object_index) == [t |-> t, object_index |-> object_index]

\* hit() has not returned since the set last changed
NotCalled == [called |-> FALSE]

(***************************************************************************)
(* Intersections::sort: Vec::sort_by is a stable sort on t.                *)
(***************************************************************************)
\* (Argument values are bound with a one-element set where a recursive
\* operator would otherwise re-evaluate its argument at every use.)
RECURSIVE InsertByT(_, _)
InsertByT(s, h) ==
    IF s = <<>> THEN <<h>>
    ELSE IF s[Len(s)].t <= h.t THEN Append(s, h)
    ELSE Append(InsertByT(SubSeq(s, 1, Len(s) - 1), h), s[Len(s)])

\* a sort that keeps one intersection per value of t
RECURSIVE SortDroppingTies(_)
SortDroppingTies(s) ==
    IF s = <<>> THEN <<>>
    ELSE LET front == SortDroppingTies(SubSeq(s, 1, Len(s) - 1))
         IN  IF \E i \in 1..Len(front) : front[i].t = s[Len(s)].t
             THEN front
             ELSE InsertByT(front, s[Len(s)])

RECURSIVE StableSortByT(_)
StableSortByT(s) ==
    IF s = <<>> THEN <<>>
    ELSE CHOOSE r \in { InsertByT(front, s[Len(s)]) :
                        front \in { StableSortByT(SubSeq(s, 1, Len(s) - 1)) } } : TRUE

\* sort that sets the flag without ordering the list
SortSkipped(hs, isSorted) == hs

\* Intersections::sort: the hits as sort leaves them
Sort(hs, isSorted) == IF isSorted THEN hs ELSE StableSortByT(hs)

(***************************************************************************)
(* The loop of Intersections::hit over the sorted hits.                    *)
(***************************************************************************)
Position(containers, object_index) ==
    LET found == {i \in 1..Len(containers) : containers[i].object_index = object_index}
    IN  IF found = {} THEN None
        ELSE Some(CHOOSE i \in found : \A j \in found : i <= j)

Remove(s, i) == SubSeq(s, 1, i - 1) \o SubSeq(s, i + 1, Len(s))

Last(s) == IF s = <<>> THEN None ELSE Some(s[Len(s)])

LastObject(containers) ==
    IF containers = <<>> THEN None ELSE Some(containers[Len(containers)].object_index)

\* a loop body that pushes every intersection and never removes one
TogglePushAlways(containers, h) == Append(containers, h)

Toggle(containers, h) ==
    LET pos == Position(containers, h.object_index)
    IN  IF pos # None THEN Remove(containers, pos[1]) ELSE Append(containers, h)

\* hit with from_obj read after the toggle instead of before it
RECURSIVE HitLoopFromAfterToggle(_, _, _, _)
HitLoopFromAfterToggle(hs, i, containers, from_obj) ==
    IF i > Len(hs) THEN [called |-> TRUE, from |-> from_obj, inter |-> None]
    ELSE LET h == hs[i]
             containers1 == Toggle(containers, h)
             from1 == IF h.t >= 0 THEN LastObject(containers1) ELSE from_obj
         IN  CHOOSE r \in
               { IF h.t >= 0
                 THEN [called |-> TRUE, from |-> st.from, inter |-> Last(st.containers)]
                 ELSE HitLoopFromAfterToggle(hs, i + 1, st.containers, st.from) :
                 st \in { [containers |-> containers1, from |-> from1] } } : TRUE

\* hit with from_obj recorded at every intersection, whatever the sign of t
RECURSIVE HitLoopFromAlways(_, _, _, _)
HitLoopFromAlways(hs, i, containers, from_obj) ==
    IF i > Len(hs) THEN [called |-> TRUE, from |-> from_obj, inter |-> None]
    ELSE LET h == hs[i]
             from1 == LastObject(containers)
             containers1 == Toggle(containers, h)
         IN  CHOOSE r \in
               { IF h.t >= 0
                 THEN [called |-> TRUE, from |-> st.from, inter |-> Last(st.containers)]
                 ELSE HitLoopFromAlways(hs, i + 1, st.containers, st.from) :
                 st \in { [containers |-> containers1, from |-> from1] } } : TRUE

RECURSIVE HitLoop(_, _, _, _)
HitLoop(hs, i, containers, from_obj) ==
    IF i > Len(hs) THEN [called |-> TRUE, from |-> from_obj, inter |-> None]
    ELSE LET h == hs[i]
             from1 == IF h.t >= 0 THEN LastObject(containers) ELSE from_obj
             containers1 == Toggle(containers, h)
         IN  CHOOSE r \in
               { IF h.t >= 0
                 THEN [called |-> TRUE, from |-> st.from, inter |-> Last(st.containers)]
                 ELSE HitLoop(hs, i + 1, st.containers, st.from) :
                 st \in { [containers |-> containers1, from |-> from1] } } : TRUE

HitOf(hs) == HitLoop(hs, 1, <<>>, None)

(***************************************************************************)
(* Operations of Intersections.                                            *)
(***************************************************************************)
Add(t, object_index) ==
    /\ Len(hits) < MaxHits
    /\ hits' = Append(hits, Intersection(t, object_index))
    /\ sorted' = FALSE
    /\ hitResult' = NotCalled
    /\ probe' = None
    /\ UNCHANGED <<worldVars, shadeVars, matVars, renderVars, laterVars>>

Clear ==
    /\ hits' = <<>>
    /\ hitResult' = NotCalled
    /\ probe' = None
    /\ UNCHANGED <<sorted, worldVars, shadeVars, matVars, renderVars, laterVars>>

Hit ==
    /\ hits' = Sort(hits, sorted)
    /\ sorted' = TRUE
    /\ hitResult' = HitOf(hits')
    /\ UNCHANGED <<probe, worldVars, shadeVars, matVars, renderVars, laterVars>>

Iter ==
    /\ hits' = Sort(hits, sorted)
    /\ sorted' = TRUE
    /\ UNCHANGED <<hitResult, probe, worldVars, shadeVars, matVars, renderVars, laterVars>>

(***************************************************************************)
(* Sphere::intersect on the probe axis.  The object is the unit sphere     *)
(* under scale(radius) then translate(center) along the axis; the ray      *)
(* starts at `origin` on the axis with direction `direction` (+1 or -1)    *)
(* along it.  In object space the origin is (origin - center)/radius and   *)
(* the direction is direction/radius; the quadratic a t^2 + b t + c of the *)
(* code is multiplied through by radius^2 here, which keeps its roots and  *)
(* makes every coefficient an integer.                                     *)
(***************************************************************************)
\* f64::sqrt on the perfect squares the axis geometry produces (floor
\* otherwise), by bisection; the next interval is bound as a value so that
\* it is computed once per level
RECURSIVE ISqrtBetween(_, _, _)
ISqrtBetween(n, lo, hi) ==
    IF lo >= hi THEN lo
    ELSE LET mid == (lo + hi + 1) \div 2
         IN  CHOOSE r \in { ISqrtBetween(n, next[1], next[2]) :
                             next \in { IF mid * mid <= n THEN <<mid, hi>>
                                        ELSE <<lo, mid - 1>> } } : TRUE

\* 46340 is the largest integer whose square fits the model's 32-bit integers
ISqrt(n) == ISqrtBetween(n, 0, IF n < 46340 THEN n ELSE 46340)

SphereIntersect(center, radius, origin, direction, object_index) ==
    LET sphere_to_ray == origin - center
        a == direction * direction
        b == 2 * direction * sphere_to_ray
        c == sphere_to_ray * sphere_to_ray - radius * radius
        discriminant == b * b - 4 * a * c
    IN  IF discriminant >= 0
        THEN << Intersection((0 - b - ISqrt(discriminant)) \div (a * 2), object_index),
                Intersection((0 - b + ISqrt(discriminant)) \div (a * 2), object_index) >>
        ELSE <<>>

(***************************************************************************)
(* World::intersect: every object, in index order, appends its crossings.  *)
(***************************************************************************)
RECURSIVE WorldIntersectFrom(_, _, _, _)
WorldIntersectFrom(objs, i, origin, direction) ==
    IF i > Len(objs) THEN <<>>
    ELSE SphereIntersect(objs[i].center, objs[i].radius, origin, direction, i - 1)
         \o WorldIntersectFrom(objs, i + 1, origin, direction)

WorldIntersect(objs, origin, direction) == WorldIntersectFrom(objs, 1, origin, direction)

\* Intersections::default()
InitIntersections ==
    /\ hits = <<>>
    /\ sorted = TRUE
    /\ hitResult = NotCalled
    /\ probe = None

(***************************************************************************)
(* World: assembly (add_object, set_light) and the recursive evaluation of *)
(* one ray (color_at, color_at_inner, reflected_color).                    *)
(*                                                                         *)
(* Scenes are spheres centred on one axis and rays run along that axis, so *)
(* a sphere's normal at a crossing is +1 or -1 along the axis and the      *)
(* mirror direction is the reversed ray direction.  Coordinates and ray    *)
(* parameters are in units of the 0.01 offset that reflected_color adds to *)
(* the origin of a reflection ray.                                         *)
(***************************************************************************)
\* the 0.01 offset of reflected_color, the unit of length here
Offset == 1

\* 1.0 in units of the offset
OffsetsPerUnit == 100

ReflDen == 2

\* reflectivity 0, 0.5 and 1 as numerators over ReflDen
Reflectivities == 0..ReflDen

\* 1.0 as a contribution; every product of the reflectivities above that is
\* not below the threshold is an integer numerator over it
ContribDen == 100000 * 4096

\* the 0.00001 of reflected_color
MinContribution == ContribDen \div 100000

MaxObjects == 2

\* (center, radius) of the spheres a scene may hold, in world units
Geometries == { <<0 - 3, 1>>, <<0, 1>>, <<0, 5>>, <<3, 1>> }

Catalog ==
    { [center |-> g[1] * OffsetsPerUnit, radius |-> g[2] * OffsetsPerUnit,
       material |-> [reflectivity |-> r]] : g \in Geometries, r \in Reflectivities }

\* light positions on the axis; World::default() puts the light at z = -10
LightPositions == { (0 - 10) * OffsetsPerUnit, 10 * OffsetsPerUnit }

RayOrigins == {0}

Directions == {0 - 1, 1}

NotShaded == [called |-> FALSE]

\* World::default() and no evaluation in progress
InitWorld ==
    /\ objects = <<>>
    /\ light = (0 - 10) * OffsetsPerUnit
    /\ returned = <<>>
    /\ added = <<>>

InitShade ==
    /\ pc = "idle"
    /\ ray = [origin |-> 0, direction |-> 1]
    /\ total_reflectivity = ContribDen
    /\ shade = NotShaded

\* ObjectIndex(self.objects.len())
NewObjectIndex(objs) == Len(objs)

\* objects inserted at the front instead of appended
PushObjectFront(objs, obj) == <<obj>> \o objs

\* self.objects.push(obj)
PushObject(objs, obj) == Append(objs, obj)

AddObject(obj) ==
    /\ pc # "call"
    /\ Len(objects) < MaxObjects
    /\ objects' = PushObject(objects, obj)
    /\ returned' = Append(returned, NewObjectIndex(objects))
    /\ added' = Append(added, obj)
    /\ UNCHANGED <<light, hitVars, shadeVars, matVars, renderVars, laterVars>>

SetLight(l) ==
    /\ pc # "call"
    /\ light' = l
    /\ UNCHANGED <<objects, returned, added, hitVars, shadeVars, matVars, renderVars, laterVars>>

\* World::color_at: color_at_inner(ray, 1.0)
ColorAt(origin, direction) ==
    /\ pc # "call"
    /\ pc' = "call"
    /\ ray' = [origin |-> origin, direction |-> direction]
    /\ total_reflectivity' = ContribDen
    /\ shade' = NotShaded
    /\ UNCHANGED <<worldVars, hitVars, matVars, renderVars, laterVars>>

\* Ray::position
RayPosition(r, t) == r.origin + r.direction * t

\* World::precompute on the axis: the sphere's normal at the point, flipped
\* when it opposes the eye vector, and the mirror direction
Precompute(obj, hit, r) ==
    LET point == RayPosition(r, hit.t)
        eyev == 0 - r.direction
        normal0 == IF point >= obj.center THEN 1 ELSE 0 - 1
        normalv == IF normal0 * eyev < 0 THEN 0 - normal0 ELSE normal0
        reflectv == r.direction - normalv * 2 * (r.direction * normalv)
    IN  [point |-> point, eyev |-> eyev, normalv |-> normalv, reflectv |-> reflectv]

\* reflected_color with the threshold tested before the total is scaled
ReflectedColorThresholdFirst(point, reflectv, material, total) ==
    LET scaled == (total * material.reflectivity) \div ReflDen
    IN  IF total < MinContribution
        THEN [total |-> scaled, cast |-> None]
        ELSE [total |-> scaled,
              cast |-> Some([origin |-> point + reflectv * Offset, direction |-> reflectv])]

\* World::reflected_color up to its recursive call: the scaled total, and
\* the reflection ray when one is cast
ReflectedColor(point, reflectv, material, total) ==
    LET scaled == (total * material.reflectivity) \div ReflDen
    IN  IF scaled < MinContribution
        THEN [total |-> scaled, cast |-> None]
        ELSE [total |-> scaled,
              cast |-> Some([origin |-> point + reflectv * Offset, direction |-> reflectv])]

\* What one invocation of World::color_at_inner computes from the sorted
\* intersections and the result of hit
ShadeOf(inters, res) ==
    IF res.inter = None
    THEN [called |-> TRUE, inters |-> inters, hit |-> res, shaded |-> None,
          reflected |-> "none", cast |-> None, total |-> total_reflectivity,
          color |-> "black"]
    ELSE LET hit == res.inter[1]
             obj == objects[hit.object_index + 1]
             comps == Precompute(obj, hit, ray)
             refl == ReflectedColor(comps.point, comps.reflectv, obj.material,
                                    total_reflectivity)
         IN  [called |-> TRUE, inters |-> inters, hit |-> res,
              shaded |-> Some(hit.object_index),
              reflected |-> IF refl.cast = None THEN "black" ELSE "cast",
              cast |-> refl.cast, total |-> refl.total,
              color |-> IF refl.cast = None THEN "surface" ELSE "surface+reflected"]

\* World::color_at_inner, one invocation: it returns (pc = "done") or makes
\* its recursive call on the reflection ray (pc = "call")
ColorAtInner ==
    /\ pc = "call"
    /\ \E inters \in { StableSortByT(WorldIntersect(objects, ray.origin, ray.direction)) } :
       \E res \in { HitOf(inters) } :
       \E sh \in { ShadeOf(inters, res) } :
          /\ shade' = sh
          /\ IF sh.cast = None
             THEN /\ pc' = "done"
                  /\ UNCHANGED <<ray, total_reflectivity>>
             ELSE /\ pc' = "call"
                  /\ ray' = sh.cast[1]
                  /\ total_reflectivity' = sh.total
    /\ UNCHANGED <<worldVars, hitVars, matVars, renderVars, laterVars>>

(***************************************************************************)
(* Material: the secondary rays of Material::color_at and their blend.     *)
(*                                                                         *)
(* Refractive indices are numerators over IdxDen, the cosine eyev.normalv  *)
(* is a numerator over CosDen, reflectivity and transparency are           *)
(* numerators over ReflDen.  A colour is one channel, an integer in units  *)
(* of 1/ReflDen of what World::color_at returns for a secondary ray.  The  *)
(* local illumination (ambient, diffuse, specular) and the colours the     *)
(* secondary rays bring back are inputs.  The Schlick polynomial is kept   *)
(* as its exact ingredients, r0 and the square of the cosine it uses.      *)
(***************************************************************************)
IdxDen == 2

CosDen == 5

MaxRefractiveIndex == 5

\* refractive indices 0.5, 1.0, ... as numerators over IdxDen
RefractiveIndexes == 1..MaxRefractiveIndex

\* with_transparency asserts transparency < 1.0
Transparencies == 0..(ReflDen - 1)

Cosines == (0 - CosDen)..CosDen

CalleeColors == {0, 2}

LocalColors == {1}

Materials ==
    { [reflectivity |-> r, transparency |-> t, refractive_index |-> n] :
        r \in Reflectivities, t \in Transparencies, n \in RefractiveIndexes }

FromMaterials == {None} \cup { Some([refractive_index |-> n]) : n \in RefractiveIndexes }

NoResult == [called |-> FALSE]

\* Material::default() shaded head-on in vacuum; no call made
InitMaterialIdle ==
    /\ matIn = [material |-> [reflectivity |-> 0, transparency |-> 0,
                              refractive_index |-> IdxDen],
                from_material |-> None, cos |-> CosDen,
                total_contribution |-> ContribDen, local |-> 0,
                reflected_callee |-> 0, refracted_callee |-> 0]
    /\ refractedResult = NoResult
    /\ reflectanceResult = NoResult
    /\ matColor = NoResult

InitMaterial ==
    /\ matIn \in { [material |-> m, from_material |-> f, cos |-> k,
                    total_contribution |-> ContribDen, local |-> l,
                    reflected_callee |-> c1, refracted_callee |-> c2] :
                     m \in Materials, f \in FromMaterials, k \in Cosines,
                     l \in LocalColors, c1 \in CalleeColors, c2 \in CalleeColors }
    /\ refractedResult = NoResult
    /\ reflectanceResult = NoResult
    /\ matColor = NoResult

\* n1 = from_material.map(|m| m.refractive_index).unwrap_or(1.0)
N1(from_material) ==
    IF from_material = None THEN IdxDen ELSE from_material[1].refractive_index

\* n_ratio * n_ratio * (1.0 - cos_i * cos_i) as <<numerator, denominator>>
Sin2T(n1, n2, cos) ==
    << n1 * n1 * (CosDen * CosDen - cos * cos), n2 * n2 * CosDen * CosDen >>

\* q > 1.0 for q = <<numerator, denominator>>, denominator > 0
ExceedsOne(q) == q[1] > q[2]

\* 1.0 - q
OneMinus(q) == << q[2] - q[1], q[2] >>

\* reflected_color passing its own contribution on unscaled
MaterialReflectedColorUnscaled(m, total_contribution, callee) ==
    [cast |-> Some([total_contribution |-> total_contribution]),
     color |-> callee * m.reflectivity]

\* Material::reflected_color: the ray it casts and the scaled colour
MaterialReflectedColor(m, total_contribution, callee) ==
    [cast |-> Some([total_contribution |-> (total_contribution * m.reflectivity) \div ReflDen]),
     color |-> callee * m.reflectivity]

\* Material::refrcolor
RefractedColor(m, n1, n2, cos, total_contribution, callee) ==
    LET sin2_t == Sin2T(n1, n2, cos)
    IN  IF ExceedsOne(sin2_t)
        THEN [cast |-> None, color |-> 0]
        ELSE [cast |-> Some([total_contribution |->
                                (total_contribution * m.transparency) \div ReflDen,
                             cos_t2 |-> OneMinus(sin2_t)]),
              color |-> callee * m.transparency]

\* r0 = ((n1 - n2) / (n1 + n2))^2
R0(n1, n2) == << (n1 - n2) * (n1 - n2), (n1 + n2) * (n1 + n2) >>

\* reflectance with total internal reflection declared at sin2_t >= 1.0
ReflectanceInclusive(n1, n2, cos) ==
    IF n1 > n2
    THEN LET sin2_t == Sin2T(n1, n2, cos)
         IN  IF sin2_t[1] >= sin2_t[2]
             THEN [branch |-> "tir", value |-> <<1, 1>>]
             ELSE [branch |-> "schlick", r0 |-> R0(n1, n2), cos2 |-> OneMinus(sin2_t),
                   cos_negative |-> FALSE]
    ELSE [branch |-> "schlick", r0 |-> R0(n1, n2),
          cos2 |-> <<cos * cos, CosDen * CosDen>>, cos_negative |-> cos < 0]

\* Material::reflectance: 1.0 on total internal reflection, else
\* r0 + (1 - r0) * (1 - cos)^5 with cos replaced by cos_t when n1 > n2
Reflectance(n1, n2, cos) ==
    IF n1 > n2
    THEN LET sin2_t == Sin2T(n1, n2, cos)
         IN  IF ExceedsOne(sin2_t)
             THEN [branch |-> "tir", value |-> <<1, 1>>]
             ELSE [branch |-> "schlick", r0 |-> R0(n1, n2), cos2 |-> OneMinus(sin2_t),
                   cos_negative |-> FALSE]
    ELSE [branch |-> "schlick", r0 |-> R0(n1, n2),
          cos2 |-> <<cos * cos, CosDen * CosDen>>, cos_negative |-> cos < 0]

\* the match with a lone secondary colour scaled by the reflectance too
CombineAlwaysScaled(reflected, refracted, n1, n2, cos) ==
    CASE reflected # None /\ refracted = None ->
            [reflectance |-> Some(Reflectance(n1, n2, cos)),
             terms |-> << [color |-> reflected[1].color, scale |-> "R"] >>]
      [] reflected = None /\ refracted # None ->
            [reflectance |-> Some(Reflectance(n1, n2, cos)),
             terms |-> << [color |-> refracted[1].color, scale |-> "1-R"] >>]
      [] reflected # None /\ refracted # None ->
            [reflectance |-> Some(Reflectance(n1, n2, cos)),
             terms |-> << [color |-> reflected[1].color, scale |-> "R"],
                          [color |-> refracted[1].color, scale |-> "1-R"] >>]
      [] reflected = None /\ refracted = None ->
            [reflectance |-> None, terms |-> <<>>]

\* match (reflected, refracted): the terms added to the colour, in order,
\* each with the factor it is multiplied by
Combine(reflected, refracted, n1, n2, cos) ==
    CASE reflected # None /\ refracted = None ->
            [reflectance |-> None,
             terms |-> << [color |-> reflected[1].color, scale |-> "1"] >>]
      [] reflected = None /\ refracted # None ->
            [reflectance |-> None,
             terms |-> << [color |-> refracted[1].color, scale |-> "1"] >>]
      [] reflected # None /\ refracted # None ->
            [reflectance |-> Some(Reflectance(n1, n2, cos)),
             terms |-> << [color |-> reflected[1].color, scale |-> "R"],
                          [color |-> refracted[1].color, scale |-> "1-R"] >>]
      [] reflected = None /\ refracted = None ->
            [reflectance |-> None, terms |-> <<>>]

\* Material::color_at after the local illumination
MaterialColorAtOf(inp) ==
    LET m == inp.material
        n1 == N1(inp.from_material)
        n2 == m.refractive_index
        refl == IF m.reflectivity > 0
                     THEN Some(MaterialReflectedColor(m, inp.total_contribution,
                                                      inp.reflected_callee))
                     ELSE None
        refr == IF m.transparency > 0
                      THEN Some(RefractedColor(m, n1, n2, inp.cos, inp.total_contribution,
                                               inp.refracted_callee))
                      ELSE None
    IN  [called |-> TRUE, local |-> inp.local, reflected |-> refl,
         refracted |-> refr,
         sum |-> Combine(refl, refr, n1, n2, inp.cos)]

MaterialColorAt ==
    /\ ~matColor.called
    /\ matColor' = MaterialColorAtOf(matIn)
    /\ UNCHANGED <<matIn, refractedResult, reflectanceResult, hitVars, worldVars, shadeVars, renderVars, laterVars>>

CallRefractedColor ==
    /\ ~refractedResult.called
    /\ refractedResult' = [called |-> TRUE,
                     result |-> RefractedColor(matIn.material, N1(matIn.from_material),
                                               matIn.material.refractive_index, matIn.cos,
                                               matIn.total_contribution,
                                               matIn.refracted_callee)]
    /\ UNCHANGED <<matIn, reflectanceResult, matColor, hitVars, worldVars, shadeVars, renderVars, laterVars>>

CallReflectance ==
    /\ ~reflectanceResult.called
    /\ reflectanceResult' = [called |-> TRUE,
                       result |-> Reflectance(N1(matIn.from_material),
                                              matIn.material.refractive_index, matIn.cos)]
    /\ UNCHANGED <<matIn, refractedResult, matColor, hitVars, worldVars, shadeVars, renderVars, laterVars>>

(***************************************************************************)
(* Camera::render and Camera::u32_buffer.  The buffer is cut into rows of  *)
(* hsize elements; par_bridge puts the row iterator behind a lock from     *)
(* which each worker of the pool takes the next (y, row) item, and the     *)
(* worker then fills its row from left to right.  Both functions return    *)
(* when the iterator is exhausted and every worker has finished.  Each     *)
(* buffer element records how often it was written, by which workers, and  *)
(* the pixel whose colour it received.                                     *)
(***************************************************************************)
MaxHsize == 2

MaxVsize == 3

NumWorkers == 2

Workers == 1..NumWorkers

Cameras == { [hsize |-> h, vsize |-> v] : h \in 1..MaxHsize, v \in 1..MaxVsize }

IdleWorker == [row |-> None, x |-> 0]

\* a buffer of len elements, none written yet
NewBuffer(len) == [i \in 0..(len - 1) |-> [writes |-> 0, by |-> {}, value |-> None]]

\* buf.len()
BufLen(b) == Cardinality(DOMAIN b)

InitCameraIdle ==
    /\ cam = [hsize |-> 1, vsize |-> 1]
    /\ renderPc = "idle"
    /\ renderFn = "none"
    /\ nextRow = 0
    /\ workers = [w \in Workers |-> IdleWorker]
    /\ buf = NewBuffer(0)

InitCamera ==
    /\ cam \in Cameras
    /\ renderPc = "idle"
    /\ renderFn = "none"
    /\ nextRow = 0
    /\ workers = [w \in Workers |-> IdleWorker]
    /\ buf = NewBuffer(0)

\* number of items of chunks_mut(hsize) over a buffer of len elements
RowCount(len, hsize) == (len + hsize - 1) \div hsize

\* rows that share their last element with the next row
RowSliceOverlapping(len, hsize, y) ==
    [start |-> y * (hsize - 1), len |-> hsize]

\* the y-th item of chunks_mut(hsize): where the row starts and its length
RowSlice(len, hsize, y) ==
    [start |-> y * hsize,
     len |-> IF len - y * hsize < hsize THEN len - y * hsize ELSE hsize]

SliceIndexes(slice) == slice.start..(slice.start + slice.len - 1)

\* Camera::color_at(x, y, world) as stored: the pixel it was computed for
PixelColor(x, y) == [x |-> x, y |-> y]

\* Camera::render up to the parallel loop: a fresh hsize x vsize image
Render ==
    /\ renderPc # "running"
    /\ renderPc' = "running"
    /\ renderFn' = "render"
    /\ buf' = NewBuffer(cam.hsize * cam.vsize)
    /\ nextRow' = 0
    /\ workers' = [w \in Workers |-> IdleWorker]
    /\ UNCHANGED <<cam, hitVars, worldVars, shadeVars, matVars, laterVars>>

\* Camera::u32_buffer up to the parallel loop, on a caller's buffer of
\* hsize * vsize elements (the debug_assert_eq)
U32Buffer ==
    /\ renderPc # "running"
    /\ renderPc' = "running"
    /\ renderFn' = "u32_buffer"
    /\ buf' = NewBuffer(cam.hsize * cam.vsize)
    /\ nextRow' = 0
    /\ workers' = [w \in Workers |-> IdleWorker]
    /\ UNCHANGED <<cam, hitVars, worldVars, shadeVars, matVars, laterVars>>

\* a worker takes the next (y, row) from the shared iterator
TakeRow(w) ==
    /\ renderPc = "running"
    /\ workers[w].row = None
    /\ nextRow < RowCount(BufLen(buf), cam.hsize)
    /\ workers' = [workers EXCEPT ![w] =
                      [row |-> Some([y |-> nextRow,
                                     slice |-> RowSlice(BufLen(buf), cam.hsize, nextRow)]),
                       x |-> 0]]
    /\ nextRow' = nextRow + 1
    /\ UNCHANGED <<cam, renderPc, renderFn, buf, hitVars, worldVars, shadeVars, matVars, laterVars>>

\* one iteration of the worker's loop over x: row[x] = color_at(x, y, world);
\* after the last one the worker is free again
WritePixel(w) ==
    /\ renderPc = "running"
    /\ workers[w].row # None
    /\ LET row == workers[w].row[1]
           x == workers[w].x
           i == row.slice.start + x
       IN  /\ x < cam.hsize
           /\ buf' = [buf EXCEPT ![i] = [writes |-> @.writes + 1,
                                         by |-> @.by \cup {w},
                                         value |-> Some(PixelColor(x, row.y))]]
           /\ workers' = [workers EXCEPT ![w] =
                             IF x + 1 < cam.hsize
                             THEN [row |-> @.row, x |-> x + 1]
                             ELSE IdleWorker]
    /\ UNCHANGED <<cam, renderPc, renderFn, nextRow, hitVars, worldVars, shadeVars, matVars, laterVars>>

\* for_each returns: the iterator is exhausted and every worker is done
Join ==
    /\ renderPc = "running"
    /\ nextRow = RowCount(BufLen(buf), cam.hsize)
    /\ \A w \in Workers : workers[w].row = None
    /\ renderPc' = "returned"
    /\ UNCHANGED <<cam, renderFn, nextRow, workers, buf, hitVars, worldVars, shadeVars, matVars, laterVars>>

Init == InitIntersections /\ InitWorld /\ InitShade /\ InitMaterialIdle /\ InitCameraIdle /\ InitLaterIdle

Next ==
    \/ \E obj \in Catalog : AddObject(obj)
    \/ \E l \in LightPositions : SetLight(l)
    \/ \E o \in RayOrigins, d \in Directions : ColorAt(o, d)
    \/ ColorAtInner

Spec == Init /\ [][Next]_vars

\* a running evaluation keeps running: color_at_inner is an ordinary call
FairSpec == Init /\ [][Next]_vars /\ WF_vars(ColorAtInner)

(***************************************************************************)
(* The world of test::hit_with_from_obj: a (radius 3), b (radius 1 at      *)
(* z = -0.25), c (radius 1 at z = +0.25), in units of 1/GridPerUnit, and   *)
(* its probe rays from (0, 0, z) toward +z.                                *)
(***************************************************************************)
GridPerUnit == 4

NestedWorld ==
    << [center |-> 0, radius |-> 3 * GridPerUnit],
       [center |-> 0 - 1, radius |-> GridPerUnit],
       [center |-> 1, radius |-> GridPerUnit] >>

ProbeOrigins == {z * GridPerUnit : z \in {0 - 4, 0 - 2, 0 - 1, 0, 1, 2, 4}}

ProbeNested(z) ==
    /\ hits = <<>>
    /\ hits' = WorldIntersect(NestedWorld, z, 1)
    /\ sorted' = FALSE
    /\ hitResult' = NotCalled
    /\ probe' = Some(z)
    /\ UNCHANGED <<worldVars, shadeVars, matVars, renderVars, laterVars>>

InitHit == InitIntersections /\ InitWorld /\ InitShade /\ InitMaterialIdle /\ InitCameraIdle /\ InitLaterIdle

NextHit ==
    \/ \E t \in TRange, o \in ObjectIndexes : Add(t, o)
    \/ \E z \in ProbeOrigins : ProbeNested(z)
    \/ Clear
    \/ Hit
    \/ Iter

SpecHit == InitHit /\ [][NextHit]_vars

InitMat == InitIntersections /\ InitWorld /\ InitShade /\ InitMaterial /\ InitCameraIdle /\ InitLaterIdle

NextMaterial ==
    \/ MaterialColorAt
    \/ CallRefractedColor
    \/ CallReflectance

SpecMaterial == InitMat /\ [][NextMaterial]_vars

InitRender == InitIntersections /\ InitWorld /\ InitShade /\ InitMaterialIdle /\ InitCamera /\ InitLaterIdle

NextRender ==
    \/ Render
    \/ U32Buffer
    \/ \E w \in Workers : TakeRow(w)
    \/ \E w \in Workers : WritePixel(w)
    \/ Join

SpecRender == InitRender /\ [][NextRender]_vars

(***************************************************************************)
(* Declarative reading of the "currently inside" stack: after the first j  *)
(* sorted intersections, the objects inside are those crossed an odd       *)
(* number of times, and the top one is the one entered last.               *)
(***************************************************************************)
IsSortedByT(hs) == \A i, j \in 1..Len(hs) : i < j => hs[i].t <= hs[j].t

Crossings(hs, j, o) == {i \in 1..j : hs[i].object_index = o}

InsideAfter(hs, j) ==
    {o \in {hs[i].object_index : i \in 1..j} : Cardinality(Crossings(hs, j, o)) % 2 = 1}

MaxOf(S) == CHOOSE x \in S : \A y \in S : y <= x

MinOf(S) == CHOOSE x \in S : \A y \in S : x <= y

TopAfter(hs, j) ==
    LET inside == InsideAfter(hs, j)
    IN  IF inside = {} THEN None
        ELSE Some(CHOOSE o \in inside :
                    \A p \in inside : MaxOf(Crossings(hs, j, p)) <= MaxOf(Crossings(hs, j, o)))

NonNeg(hs) == {i \in 1..Len(hs) : hs[i].t >= 0}

ObjectOf(inter) == IF inter = None THEN None ELSE Some(inter[1].object_index)

\* (from, after) of test::hit_with_from_obj, objects a = 0, b = 1, c = 2
ExpectedProbe(z) ==
    CASE z = (0 - 4) * GridPerUnit -> <<None, Some(0)>>
      [] z = (0 - 2) * GridPerUnit -> <<Some(0), Some(1)>>
      [] z = (0 - 1) * GridPerUnit -> <<Some(1), Some(2)>>
      [] z = 0 -> <<Some(2), Some(2)>>
      [] z = GridPerUnit -> <<Some(2), Some(0)>>
      [] z = 2 * GridPerUnit -> <<Some(0), None>>
      [] z = 4 * GridPerUnit -> <<None, None>>

C2_HitIsNearestNonNegative ==
    (hitResult.called /\ NonNeg(hits) # {}) =>
        LET k == MinOf(NonNeg(hits))
        IN  /\ hitResult.inter # None
            /\ hitResult.inter[1].t = hits[k].t
            /\ hitResult.inter[1].object_index = hits[k].object_index

(***************************************************************************)
(* C3: every World::color_at call terminates: along every chain of         *)
(* recursive rays the contribution falls below the threshold and the       *)
(* recursion stops, for every scene and material the builders can make.    *)
(***************************************************************************)
C3_ColorAtTerminates == (pc = "call") ~> (pc = "done")

(***************************************************************************)
(* C4: add_object returns 0, 1, 2, ... in insertion order, and after any   *)
(* later add_object and set_light calls every index returned earlier still *)
(* refers to the object it was returned for.                               *)
(***************************************************************************)
C4_ObjectIndexesStable ==
    /\ Len(returned) = Len(added)
    /\ \A i \in 1..Len(returned) :
          /\ returned[i] = i - 1
          /\ returned[i] < Len(objects)
          /\ objects[returned[i] + 1] = added[i]

C4_Witness ==
    /\ Len(returned) = 2
    /\ added[1] # added[2]
    /\ light # (0 - 10) * OffsetsPerUnit

(***************************************************************************)
(* C5: when the intersection set of a ray is empty or holds only negative  *)
(* t, hit reports None for both the from-object and the intersection, and  *)
(* color_at returns black for that ray.                                    *)
(***************************************************************************)
C5_NoHitIsBlack ==
    (shade.called /\ NonNeg(shade.inters) = {}) =>
        /\ shade.hit.from = None
        /\ shade.hit.inter = None
        /\ shade.shaded = None
        /\ shade.color = "black"

\* a sphere wholly behind the ray: two crossings, both negative
C5_Witness ==
    /\ shade.called
    /\ shade.inters # <<>>
    /\ NonNeg(shade.inters) = {}

(***************************************************************************)
(* C6: color_at shades the visible hit with the object on the after side   *)
(* of the crossing, or with the object on the before side when the after   *)
(* side is vacuum; a ray whose nearest non-negative crossing leaves a      *)
(* solid into empty space is shaded with that solid, not treated as a miss.*)
(***************************************************************************)
C6_ShadesAfterOrBeforeObject ==
    (shade.called /\ NonNeg(shade.inters) # {}) =>
        LET k == MinOf(NonNeg(shade.inters))
            after == TopAfter(shade.inters, k)
            before == TopAfter(shade.inters, k - 1)
        IN  /\ shade.shaded = (IF after # None THEN after ELSE before)
            /\ shade.color # "black"

(***************************************************************************)
(* C7: for a material with reflectivity 0 the reflected contribution is    *)
(* black and no reflection ray is cast, whatever the world, point,         *)
(* direction and incoming contribution.                                    *)
(***************************************************************************)
C7_ZeroReflectivityIsBlack ==
    (/\ shade.called
     /\ shade.shaded # None
     /\ objects[shade.shaded[1] + 1].material.reflectivity = 0) =>
        /\ shade.reflected = "black"
        /\ shade.cast = None
        /\ pc = "done"

\* a second-level ray (incoming contribution 0.5) that hits a matte sphere
C7_Witness ==
    /\ shade.called
    /\ shade.shaded # None
    /\ objects[shade.shaded[1] + 1].material.reflectivity = 0
    /\ total_reflectivity < ContribDen
    /\ total_reflectivity > 0

(***************************************************************************)
(* Declarative reading of the refraction geometry: with n1 = a / IdxDen,   *)
(* n2 = b / IdxDen and cos = k / CosDen, sin^2(theta_t) > 1 says           *)
(* a^2 (CosDen^2 - k^2) > b^2 CosDen^2.                                    *)
(***************************************************************************)
IndexFrom(inp) ==
    IF inp.from_material = None THEN IdxDen ELSE inp.from_material[1].refractive_index

TotalInternal(inp) ==
    LET a == IndexFrom(inp)
        b == inp.material.refractive_index
        k == inp.cos
    IN  a * a * CosDen * CosDen - a * a * k * k > b * b * CosDen * CosDen

ReflectedContribution(inp) == inp.reflected_callee * inp.material.reflectivity

RefractedContribution(inp) ==
    IF TotalInternal(inp) THEN 0 ELSE inp.refracted_callee * inp.material.transparency

(***************************************************************************)
(* C8: Material::color_at adds to the local illumination, when both        *)
(* reflectivity > 0 and transparency > 0, reflected * R and then           *)
(* refracted * (1 - R) with R the reflectance (1 on total internal         *)
(* reflection, the Schlick value otherwise); when only one of the two is   *)
(* > 0, that contribution unscaled; when neither is, nothing.              *)
(***************************************************************************)
C8_CombinesByCase ==
    matColor.called =>
        LET m == matIn.material
            s == matColor.sum
        IN  /\ matColor.local = matIn.local
            /\ (m.reflectivity > 0 /\ m.transparency > 0) =>
                  /\ s.terms = << [color |-> ReflectedContribution(matIn), scale |-> "R"],
                                  [color |-> RefractedContribution(matIn), scale |-> "1-R"] >>
                  /\ s.reflectance # None
                  /\ s.reflectance[1].branch =
                        (IF TotalInternal(matIn) THEN "tir" ELSE "schlick")
                  /\ TotalInternal(matIn) => s.reflectance[1].value = <<1, 1>>
            /\ (m.reflectivity > 0 /\ ~(m.transparency > 0)) =>
                  /\ s.terms = << [color |-> ReflectedContribution(matIn), scale |-> "1"] >>
                  /\ s.reflectance = None
            /\ (~(m.reflectivity > 0) /\ m.transparency > 0) =>
                  /\ s.terms = << [color |-> RefractedContribution(matIn), scale |-> "1"] >>
                  /\ s.reflectance = None
            /\ (~(m.reflectivity > 0) /\ ~(m.transparency > 0)) =>
                  /\ s.terms = <<>>
                  /\ s.reflectance = None

\* a half-mirror, half-transparent material seen at an angle from a denser
\* medium without total internal reflection: both rays cast and blended
C8_Witness ==
    /\ matColor.called
    /\ matIn.material.reflectivity > 0
    /\ matIn.material.transparency > 0
    /\ IndexFrom(matIn) > matIn.material.refractive_index
    /\ ~TotalInternal(matIn)
    /\ matIn.cos < CosDen
    /\ matIn.reflected_callee # matIn.refracted_callee
    /\ Len(matColor.sum.terms) = 2

(***************************************************************************)
(* C9: for positive refractive indices and unit vectors, whenever          *)
(* sin^2(theta_t) > 1 refracted_color returns exactly black and casts no   *)
(* refracted ray, and reflectance returns exactly 1 for the same inputs;   *)
(* reflectance takes its total-internal-reflection branch in no other case.*)
(***************************************************************************)
C9_TotalInternalReflection ==
    (refractedResult.called /\ reflectanceResult.called) =>
        /\ TotalInternal(matIn) =>
              /\ refractedResult.result.color = 0
              /\ refractedResult.result.cast = None
              /\ reflectanceResult.result.branch = "tir"
              /\ reflectanceResult.result.value = <<1, 1>>
        /\ reflectanceResult.result.branch = "tir" => TotalInternal(matIn)
        /\ ~TotalInternal(matIn) => refractedResult.result.cast # None

\* glass to air beyond the critical angle, with a bright scene behind
C9_Witness ==
    /\ refractedResult.called
    /\ reflectanceResult.called
    /\ TotalInternal(matIn)
    /\ matIn.cos # 0
    /\ matIn.refracted_callee > 0
    /\ matIn.material.transparency > 0

(***************************************************************************)
(* C10: in render and u32_buffer the buffer is partitioned by row among    *)
(* the workers: under every interleaving the rows held by two workers are  *)
(* disjoint and no element is written twice or by two workers; when the    *)
(* call returns every pixel (x < hsize, y < vsize) has been written        *)
(* exactly once, with the colour computed for it; the steps of the         *)
(* workers leave the World and the Camera unchanged.                       *)
(***************************************************************************)
RowsPartitioned ==
    renderPc # "idle" =>
        /\ \A i \in DOMAIN buf :
              /\ buf[i].writes <= 1
              /\ Cardinality(buf[i].by) <= 1
        /\ \A w1, w2 \in Workers :
              (w1 # w2 /\ workers[w1].row # None /\ workers[w2].row # None) =>
                  SliceIndexes(workers[w1].row[1].slice)
                      \cap SliceIndexes(workers[w2].row[1].slice) = {}
        /\ renderPc = "returned" =>
              \A x \in 0..(cam.hsize - 1), y \in 0..(cam.vsize - 1) :
                  /\ (y * cam.hsize + x) \in DOMAIN buf
                  /\ buf[y * cam.hsize + x].writes = 1
                  /\ buf[y * cam.hsize + x].value = Some(PixelColor(x, y))

C10_RowsDisjointAndComplete ==
    /\ []RowsPartitioned
    /\ [][renderPc = "running" => UNCHANGED <<cam, objects, light>>]_vars

\* a returned call on an image of several rows to which every worker
\* contributed, one of them more than one row
C10_Witness ==
    /\ renderPc = "returned"
    /\ cam.hsize > 1
    /\ cam.vsize > NumWorkers
    /\ \A w \in Workers : \E i \in DOMAIN buf : buf[i].by = {w}

(***************************************************************************)
(* C11: add_object and set_light are assembly-time only: once color_at has *)
(* been called on a World, no later add_object or set_light call changes   *)
(* its objects or its light.                                               *)
(***************************************************************************)
C11_NoMutationAfterRender ==
    [][pc # "idle" => (objects' = objects /\ light' = light)]_vars

(***************************************************************************)
(* Camera::color_at: the oversampling loops of one pixel.  Sub-pixel       *)
(* offsets are rationals <<numerator, denominator>>; the colour each       *)
(* World::color_at call returns is an input, one channel; the returned     *)
(* colour is the accumulator over oversample * oversample, kept as a       *)
(* rational (a zero denominator is the NaN of 0.0 / 0.0).                  *)
(***************************************************************************)
MaxOversample == 3

Oversamples == 0..MaxOversample

SampleColors == {0, 1}

InitSample ==
    /\ sampling \in { [oversample |-> s, xo |-> 1, yo |-> 1, acc |-> 0] : s \in Oversamples }
    /\ sampleCalls = <<>>
    /\ pixelColor = None

\* an overfactor that reaches the far edge of the pixel
OverfactorEdge(oversample) == <<1, oversample>>

\* overfactor = 1.0 / (self.oversample + 1) as f64
Overfactor(oversample) == <<1, oversample + 1>>

\* overfactor * xo as f64
Times(q, n) == <<q[1] * n, q[2]>>

\* one iteration of the inner loop: a ray through the sub-pixel offset,
\* World::color_at on it with contribution 1.0, the colour accumulated
CameraSample ==
    /\ pixelColor = None
    /\ sampling.xo <= sampling.oversample
    /\ sampling.yo <= sampling.oversample
    /\ \E c \in SampleColors :
          /\ sampleCalls' = Append(sampleCalls,
                 [xover |-> Times(Overfactor(sampling.oversample), sampling.xo),
                  yover |-> Times(Overfactor(sampling.oversample), sampling.yo),
                  contribution |-> ContribDen,
                  color |-> c])
          /\ sampling' = [sampling EXCEPT
                 !.acc = @ + c,
                 !.yo = IF @ < sampling.oversample THEN @ + 1 ELSE 1,
                 !.xo = IF sampling.yo < sampling.oversample THEN @ ELSE @ + 1]
    /\ UNCHANGED <<pixelColor, sampleFrame>>

\* the loops are over: acc / (oversample * oversample)
CameraColorAtReturn ==
    /\ pixelColor = None
    /\ sampling.xo > sampling.oversample
    /\ pixelColor' = Some(<<sampling.acc, sampling.oversample * sampling.oversample>>)
    /\ UNCHANGED <<sampling, sampleCalls, sampleFrame>>

\* the state the earlier groups keep while other operations run
InitCoreIdle ==
    InitIntersections /\ InitWorld /\ InitShade /\ InitMaterialIdle /\ InitCameraIdle

InitSampler == InitCoreIdle /\ sampleOthersIdle /\ InitSample

NextSampler ==
    \/ CameraSample
    \/ CameraColorAtReturn

SpecSampler == InitSampler /\ [][NextSampler]_vars

RECURSIVE SumOfColors(_)
SumOfColors(calls) ==
    IF calls = <<>> THEN 0
    ELSE calls[Len(calls)].color + SumOfColors(SubSeq(calls, 1, Len(calls) - 1))

(***************************************************************************)
(* C12: with oversample = S >= 1, Camera::color_at casts exactly S * S     *)
(* sample rays, one at each sub-pixel offset (i/(S+1), j/(S+1)) for i, j   *)
(* in 1..S, all strictly inside the pixel (the centre when S = 1), each    *)
(* with initial contribution 1.0, and returns the sum of the sample        *)
(* colours divided by S * S.                                               *)
(***************************************************************************)
C12_OversampleAverages ==
    (pixelColor # None /\ sampling.oversample >= 1) =>
        LET S == sampling.oversample
        IN  /\ Len(sampleCalls) = S * S
            /\ \A i, j \in 1..S :
                  Cardinality({ n \in 1..Len(sampleCalls) :
                                  /\ sampleCalls[n].xover[1] * (S + 1) = i * sampleCalls[n].xover[2]
                                  /\ sampleCalls[n].yover[1] * (S + 1) = j * sampleCalls[n].yover[2]
                              }) = 1
            /\ \A n \in 1..Len(sampleCalls) :
                  /\ sampleCalls[n].xover[2] > 0
                  /\ sampleCalls[n].yover[2] > 0
                  /\ 0 < sampleCalls[n].xover[1]
                  /\ sampleCalls[n].xover[1] < sampleCalls[n].xover[2]
                  /\ 0 < sampleCalls[n].yover[1]
                  /\ sampleCalls[n].yover[1] < sampleCalls[n].yover[2]
                  /\ sampleCalls[n].contribution = ContribDen
            /\ S = 1 => /\ 2 * sampleCalls[1].xover[1] = sampleCalls[1].xover[2]
                        /\ 2 * sampleCalls[1].yover[1] = sampleCalls[1].yover[2]
            /\ pixelColor[1] = <<SumOfColors(sampleCalls), S * S>>

\* nine samples of mixed colours, returned
C12_Witness ==
    /\ pixelColor # None
    /\ sampling.oversample = 3
    /\ Len(sampleCalls) = 9
    /\ pixelColor[1][1] > 0
    /\ pixelColor[1][1] < 9

(***************************************************************************)
(* Mat<4>: 4x4 matrices (src/src/math/matrices.rs).  An f64 matrix is      *)
(* modelled exactly as integer numerators over one positive denominator,   *)
(* [num |-> rows, den |-> d], kept in lowest terms; den = 0 marks a matrix *)
(* whose entries are the infinities and NaNs of a division by 0.0 (each    *)
(* entry is then num / 0.0).  Rows and columns are numbered from 1.        *)
(* Rotation angles are whole quarter turns, whose sine and cosine are      *)
(* integers.                                                               *)
(***************************************************************************)
Abs(n) == IF n < 0 THEN 0 - n ELSE n

RECURSIVE Gcd(_, _)
Gcd(a, b) == IF b = 0 THEN Abs(a) ELSE Gcd(b, a % Abs(b))

RowGcd(row, n) == Gcd(Gcd(row[1], row[2]), IF n = 3 THEN row[3] ELSE Gcd(row[3], row[4]))

\* lowest terms: f64 values are compared by value, 2/4 = 1/2
\* a 4x4 array of rows from the entry at each (i, j), computed once
MatOf(F(_, _)) ==
    << <<F(1, 1), F(1, 2), F(1, 3), F(1, 4)>>, <<F(2, 1), F(2, 2), F(2, 3), F(2, 4)>>,
       <<F(3, 1), F(3, 2), F(3, 3), F(3, 4)>>, <<F(4, 1), F(4, 2), F(4, 3), F(4, 4)>> >>

\* lowest terms: f64 values are compared by value, 2/4 = 1/2
Normalize(m) ==
    IF m.den = 0 THEN m
    ELSE CHOOSE n \in
           { [num |-> MatOf(LAMBDA i, j : m.num[i][j] \div g), den |-> m.den \div g] :
             g \in { Gcd(m.den, Gcd(Gcd(RowGcd(m.num[1], 4), RowGcd(m.num[2], 4)),
                                    Gcd(RowGcd(m.num[3], 4), RowGcd(m.num[4], 4)))) } } : TRUE

\* Mat::new on whole numbers
MatNew(rows) == [num |-> rows, den |-> 1]

\* Mat::identity
Identity ==
    MatNew(<< <<1, 0, 0, 0>>, <<0, 1, 0, 0>>, <<0, 0, 1, 0>>, <<0, 0, 0, 1>> >>)

\* Mat::transpose
Transpose(m) == [num |-> MatOf(LAMBDA i, j : m.num[j][i]), den |-> m.den]

\* Mat<2>::determinant
Determinant2(a) == a[1][1] * a[2][2] - a[1][2] * a[2][1]

\* Mat<3>::submatrix: row r and column c removed
Submatrix3(a, r, c) ==
    [i \in 1..2 |-> [j \in 1..2 |->
        a[IF i < r THEN i ELSE i + 1][IF j < c THEN j ELSE j + 1]]]

\* Mat<3>::minor
Minor3(a, r, c) == Determinant2(Submatrix3(a, r, c))

\* Mat<3>::cofactor
Cofactor3(a, r, c) == IF (r + c) % 2 = 0 THEN Minor3(a, r, c) ELSE 0 - Minor3(a, r, c)

\* Mat<3>::determinant
Determinant3(a) ==
    a[1][1] * Cofactor3(a, 1, 1) + a[1][2] * Cofactor3(a, 1, 2) + a[1][3] * Cofactor3(a, 1, 3)

\* Mat<4>::submatrix
Submatrix4(a, r, c) ==
    [i \in 1..3 |-> [j \in 1..3 |->
        a[IF i < r THEN i ELSE i + 1][IF j < c THEN j ELSE j + 1]]]

\* Mat<4>::minor
Minor4(a, r, c) == Determinant3(Submatrix4(a, r, c))

\* Mat<4>::cofactor
Cofactor4(a, r, c) == IF (r + c) % 2 = 0 THEN Minor4(a, r, c) ELSE 0 - Minor4(a, r, c)

\* Mat<4>::determinant on the numerators; the determinant of m is this
\* over m.den^4
Determinant4(a) ==
    a[1][1] * Cofactor4(a, 1, 1) + a[1][2] * Cofactor4(a, 1, 2)
      + a[1][3] * Cofactor4(a, 1, 3) + a[1][4] * Cofactor4(a, 1, 4)

\* Mat::is_invertible
IsInvertible(m) == Determinant4(m.num) # 0

\* inverse with the cofactors stored untransposed
InverseUntransposed(m) ==
    IF m.den = 0 THEN m
    ELSE CHOOSE res \in
           { Normalize([num |-> MatOf(LAMBDA r, c :
                                   m.den * Cofactor4(m.num, r, c) * (IF det < 0 THEN 0 - 1 ELSE 1)),
                        den |-> Abs(det)]) :
             det \in { Determinant4(m.num) } } : TRUE

\* Mat::inverse: res[(c, r)] = cofactor(r, c) / det.  With numerators a
\* over d the cofactor is Cofactor4(a) / d^3 and det is Determinant4(a) /
\* d^4, so the entry is d * Cofactor4(a, r, c) / Determinant4(a); det = 0
\* leaves every entry divided by 0.0
Inverse(m) ==
    IF m.den = 0 THEN m
    ELSE CHOOSE res \in
           { Normalize([num |-> MatOf(LAMBDA c, r :
                                   m.den * Cofactor4(m.num, r, c) * (IF det < 0 THEN 0 - 1 ELSE 1)),
                        den |-> Abs(det)]) :
             det \in { Determinant4(m.num) } } : TRUE

\* Mul for two matrices: res[(i, j)] = sum over k of self[(i, k)] * other[(k, j)]
Mul(self, other) ==
    Normalize([num |-> MatOf(LAMBDA i, j :
                    self.num[i][1] * other.num[1][j] + self.num[i][2] * other.num[2][j]
                      + self.num[i][3] * other.num[3][j] + self.num[i][4] * other.num[4][j]),
               den |-> self.den * other.den])

\* Mul for a matrix and a point (implicit fourth element 1.0); points are
\* <<x, y, z>> numerators over a denominator
MulPoint(m, p) ==
    [num |-> [i \in 1..3 |->
                 m.num[i][1] * p.num[1] + m.num[i][2] * p.num[2] + m.num[i][3] * p.num[3]
                   + m.num[i][4] * p.den],
     den |-> m.den * p.den]

(***************************************************************************)
(* The transform builders.  Each builds its elementary matrix and          *)
(* multiplies the receiver by it.                                          *)
(***************************************************************************)
\* cos and sin of q quarter turns
Cos(q) == CASE q % 4 = 0 -> 1 [] q % 4 = 1 -> 0 [] q % 4 = 2 -> 0 - 1 [] q % 4 = 3 -> 0

Sin(q) == CASE q % 4 = 0 -> 0 [] q % 4 = 1 -> 1 [] q % 4 = 2 -> 0 [] q % 4 = 3 -> 0 - 1

\* the mat4! of each builder, from a call [op |-> name, args |-> <<..>>]
Elementary(call) ==
    LET a == call.args
    IN  CASE call.op = "translate" ->
               MatNew(<< <<1, 0, 0, a[1]>>, <<0, 1, 0, a[2]>>, <<0, 0, 1, a[3]>>, <<0, 0, 0, 1>> >>)
          [] call.op = "scale" ->
               MatNew(<< <<a[1], 0, 0, 0>>, <<0, a[2], 0, 0>>, <<0, 0, a[3], 0>>, <<0, 0, 0, 1>> >>)
          [] call.op = "rotate_x" ->
               MatNew(<< <<1, 0, 0, 0>>, <<0, Cos(a[1]), 0 - Sin(a[1]), 0>>,
                         <<0, Sin(a[1]), Cos(a[1]), 0>>, <<0, 0, 0, 1>> >>)
          [] call.op = "rotate_y" ->
               MatNew(<< <<Cos(a[1]), 0, Sin(a[1]), 0>>, <<0, 1, 0, 0>>,
                         <<0 - Sin(a[1]), 0, Cos(a[1]), 0>>, <<0, 0, 0, 1>> >>)
          [] call.op = "rotate_z" ->
               MatNew(<< <<Cos(a[1]), 0 - Sin(a[1]), 0, 0>>, <<Sin(a[1]), Cos(a[1]), 0, 0>>,
                         <<0, 0, 1, 0>>, <<0, 0, 0, 1>> >>)
          [] call.op = "shear" ->
               MatNew(<< <<1, a[1], a[2], 0>>, <<a[3], 1, a[4], 0>>, <<a[5], a[6], 1, 0>>,
                         <<0, 0, 0, 1>> >>)

\* a builder that multiplies on the other side
BuildRight(elementary, self) == Mul(self, elementary)

\* return mat4![..] * *self
Build(elementary, self) == Mul(elementary, self)

MaxChain == 3

TranslateArgs == { <<1, 0, 0>>, <<0, 2, 0 - 1>> }

\* the last one is singular
ScaleArgs == { <<1, 0 - 1, 2>>, <<0, 1, 1>> }

QuarterTurns == {1}

ShearArgs == { <<1, 0, 0, 0, 0, 0>> }

BuilderCalls ==
    { [op |-> "translate", args |-> a] : a \in TranslateArgs }
      \cup { [op |-> "scale", args |-> a] : a \in ScaleArgs }
      \cup { [op |-> o, args |-> <<q>>] : o \in {"rotate_x", "rotate_y", "rotate_z"},
                                          q \in QuarterTurns }
      \cup { [op |-> "shear", args |-> a] : a \in ShearArgs }

\* matrices a chain may start from: the identity and a matrix given whole
StartMatrices ==
    { Identity,
      MatNew(<< <<1, 2, 0, 1>>, <<0, 1, 1, 0>>, <<1, 0, 1, 1>>, <<0, 1, 0, 2>> >>) }

InitMatrix ==
    /\ matStart \in StartMatrices
    /\ mat = matStart
    /\ chain = <<>>
    /\ inv = None

\* one builder call on the matrix built so far
BuilderCall(call) ==
    /\ Len(chain) < MaxChain
    /\ mat' = Build(Elementary(call), mat)
    /\ chain' = Append(chain, call)
    /\ inv' = None
    /\ UNCHANGED <<matStart, matrixFrame>>

\* mat.inverse()
Invert ==
    /\ inv = None
    /\ inv' = Some(Inverse(mat))
    /\ UNCHANGED <<matStart, mat, chain, matrixFrame>>

InitMatrices == InitCoreIdle /\ matrixOthersIdle /\ InitMatrix

NextMatrix ==
    \/ \E call \in BuilderCalls : BuilderCall(call)
    \/ Invert

SpecMatrix == InitMatrices /\ [][NextMatrix]_vars

(***************************************************************************)
(* Declarative reading of the builders on a point: what each call does to  *)
(* the coordinates <<x, y, z>> (numerators over p.den).                    *)
(***************************************************************************)
ApplyCall(call, p) ==
    LET a == call.args
        x == p.num[1]
        y == p.num[2]
        z == p.num[3]
    IN  CASE call.op = "translate" ->
               [num |-> <<x + a[1] * p.den, y + a[2] * p.den, z + a[3] * p.den>>, den |-> p.den]
          [] call.op = "scale" ->
               [num |-> <<x * a[1], y * a[2], z * a[3]>>, den |-> p.den]
          [] call.op = "rotate_x" ->
               [num |-> <<x, y * Cos(a[1]) - z * Sin(a[1]), y * Sin(a[1]) + z * Cos(a[1])>>,
                den |-> p.den]
          [] call.op = "rotate_y" ->
               [num |-> <<x * Cos(a[1]) + z * Sin(a[1]), y, z * Cos(a[1]) - x * Sin(a[1])>>,
                den |-> p.den]
          [] call.op = "rotate_z" ->
               [num |-> <<x * Cos(a[1]) - y * Sin(a[1]), x * Sin(a[1]) + y * Cos(a[1]), z>>,
                den |-> p.den]
          [] call.op = "shear" ->
               [num |-> <<x + a[1] * y + a[2] * z, y + a[3] * x + a[4] * z,
                          z + a[5] * x + a[6] * y>>,
                den |-> p.den]

RECURSIVE ApplyChain(_, _)
ApplyChain(calls, p) ==
    IF calls = <<>> THEN p
    ELSE ApplyChain(SubSeq(calls, 2, Len(calls)), ApplyCall(calls[1], p))

\* equal as points: equal coordinates as fractions
PointEq(p, q) == \A i \in 1..3 : p.num[i] * q.den = q.num[i] * p.den

TestPoints == { [num |-> <<1, 0, 1>>, den |-> 1], [num |-> <<2, 3, 4>>, den |-> 1],
                [num |-> <<0 - 1, 1, 0>>, den |-> 2] }

\* second factors for the product rule: a shear and the translations
ProductFactors ==
    { Elementary(call) : call \in { k \in BuilderCalls : k.op \in {"shear", "translate"} } }

(***************************************************************************)
(* C17: for an invertible matrix m, m.inverse() has at (c, r) the cofactor *)
(* of m at (r, c) divided by the determinant; m * m.inverse() and          *)
(* m.inverse() * m are the identity; m.inverse().inverse() is m; and       *)
(* (m * b).inverse() is b.inverse() * m.inverse() for invertible b.        *)
(***************************************************************************)
C17_InverseIsAdjugateOverDet ==
    (inv # None /\ IsInvertible(mat)) =>
        LET i == inv[1]
            det == Determinant4(mat.num)
        IN  /\ i.den > 0
            /\ \A r, c \in 1..4 :
                  i.num[c][r] * det = i.den * mat.den * Cofactor4(mat.num, r, c)
            /\ Mul(mat, i) = Identity
            /\ Mul(i, mat) = Identity
            /\ Inverse(i) = mat
            /\ \A b \in ProductFactors :
                  /\ Inverse(Mul(mat, b)) = Mul(Inverse(b), i)
                  /\ Inverse(Mul(b, mat)) = Mul(i, Inverse(b))

\* the inverse of a non-symmetric, non-affine matrix with fractions in it
C17_Witness ==
    /\ inv # None
    /\ IsInvertible(mat)
    /\ matStart # Identity
    /\ Len(chain) >= 2
    /\ inv[1].den > 1
    /\ Transpose(inv[1]) # inv[1]

(***************************************************************************)
(* C18: each builder (translate, scale, rotate_x/y/z, shear) left-         *)
(* multiplies the receiver by its elementary matrix: the matrix built by a *)
(* chain of calls, applied to a point, gives what applying the first       *)
(* call's transform, then the second's, ..., then the last's gives.        *)
(***************************************************************************)
C18_ChainOrderIsApplicationOrder ==
    matStart = Identity =>
        \A p \in TestPoints : PointEq(MulPoint(mat, p), ApplyChain(chain, p))

\* a translation, then a scaling, then a rotation: no two of them commute
C18_Witness ==
    /\ matStart = Identity
    /\ Len(chain) = 3
    /\ chain[1].op = "translate"
    /\ chain[2].op = "scale"
    /\ chain[3].op = "rotate_x"
    /\ IsInvertible(mat)

(***************************************************************************)
(* Object (src/src/object/object.rs).  An Object keeps the inverse of the  *)
(* object-to-world matrix it was given, the transpose of that inverse and  *)
(* a material.  The inner shape never changes and is left out.             *)
(***************************************************************************)
MaxObjectCalls == 3

\* Material::default()
DefaultMaterial == [reflectivity |-> 0, transparency |-> 0, refractive_index |-> IdxDen]

\* Object::new
ObjectNew ==
    [transform |-> Identity, transp_transform |-> Identity, material |-> DefaultMaterial]

\* object-to-world matrices given to with_transform: one builder call on the
\* identity; scale(0, 1, 1) has determinant 0
ObjectTransforms == { Build(Elementary(call), Identity) : call \in BuilderCalls }

ObjectMaterials ==
    { DefaultMaterial,
      [reflectivity |-> ReflDen, transparency |-> 0, refractive_index |-> IdxDen],
      [reflectivity |-> 0, transparency |-> 1, refractive_index |-> IdxDen + 1] }

\* with_transform taking the transpose before the new transform is stored
WithTransformStale(self, obj_to_world) ==
    [self EXCEPT !.transform = Inverse(obj_to_world),
                 !.transp_transform = Transpose(self.transform)]

\* Object::with_transform: no check of the matrix; inverse() divides by the
\* determinant whatever it is
WithTransformOf(self, obj_to_world) ==
    CHOOSE o \in { [self EXCEPT !.transform = t, !.transp_transform = Transpose(t)] :
                   t \in { Inverse(obj_to_world) } } : TRUE

\* Object::with_material
WithMaterialOf(self, material) == [self EXCEPT !.material = material]

InitObject ==
    /\ object = ObjectNew
    /\ objectCalls = <<>>

WithTransform(obj_to_world) ==
    /\ Len(objectCalls) < MaxObjectCalls
    /\ object' = WithTransformOf(object, obj_to_world)
    /\ objectCalls' = Append(objectCalls, [op |-> "with_transform", arg |-> obj_to_world])
    /\ UNCHANGED objectFrame

WithMaterial(material) ==
    /\ Len(objectCalls) < MaxObjectCalls
    /\ object' = WithMaterialOf(object, material)
    /\ objectCalls' = Append(objectCalls, [op |-> "with_material", arg |-> material])
    /\ UNCHANGED objectFrame

InitObjects == InitCoreIdle /\ objectOthersIdle /\ InitObject

NextObject ==
    \/ \E m \in ObjectTransforms : WithTransform(m)
    \/ \E m \in ObjectMaterials : WithMaterial(m)

SpecObject == InitObjects /\ [][NextObject]_vars

\* the argument of the last call of the given kind, None if there was none
LastSupplied(calls, op) ==
    LET at == { i \in 1..Len(calls) : calls[i].op = op }
    IN  IF at = {} THEN None ELSE Some(calls[MaxOf(at)].arg)

(***************************************************************************)
(* C13: a non-invertible transform given to Object::with_transform (or a   *)
(* degenerate view given to Camera::new) is caught by a debug assertion:   *)
(* the call fails, so no Object stores the inverse of a singular matrix.   *)
(* Here: every matrix an Object was built from is invertible and the       *)
(* stored transform is a finite matrix.                                    *)
(***************************************************************************)
C13_SingularTransformRejected ==
    LET supplied == LastSupplied(objectCalls, "with_transform")
    IN  supplied # None => /\ IsInvertible(supplied[1])
                           /\ object.transform.den # 0

(***************************************************************************)
(* C19: after any sequence of with_transform and with_material calls,      *)
(* transform is the inverse of the last matrix supplied (identity if       *)
(* none), transp_transform is the transpose of transform, material is the  *)
(* last material supplied (the default if none); each kind of call leaves  *)
(* the other kind's fields unchanged.                                      *)
(***************************************************************************)
C19_ObjectFollowsLastCalls ==
    /\ LET supplied == LastSupplied(objectCalls, "with_transform")
       IN  /\ supplied = None => object.transform = Identity
           /\ supplied # None =>
                /\ object.transform = Inverse(supplied[1])
                /\ IsInvertible(supplied[1]) =>
                     /\ Mul(object.transform, supplied[1]) = Identity
                     /\ Mul(supplied[1], object.transform) = Identity
    /\ object.transp_transform = Transpose(object.transform)
    /\ \A i \in 1..4, j \in 1..4 :
         object.transp_transform.num[i][j] = object.transform.num[j][i]
    /\ LET supplied == LastSupplied(objectCalls, "with_material")
       IN  object.material = IF supplied = None THEN DefaultMaterial ELSE supplied[1]

\* an object given a material and then two transforms, the last one a shear
C19_Witness ==
    /\ Len(objectCalls) = 3
    /\ objectCalls[1].op = "with_material"
    /\ objectCalls[1].arg # DefaultMaterial
    /\ objectCalls[2].op = "with_transform"
    /\ objectCalls[3].op = "with_transform"
    /\ objectCalls[3].arg # Transpose(objectCalls[3].arg)
    /\ objectCalls[3].arg # objectCalls[2].arg
    /\ object.transform # Identity

(***************************************************************************)
(* Material builders (src/src/material.rs).  Every with_* call stores its  *)
(* argument in one field (two for with_transparency).  ambient, diffuse,   *)
(* specular and shininess are in tenths; reflectivity and transparency are *)
(* numerators over ReflDen and the refractive index over IdxDen, as above. *)
(* The only check is with_transparency's debug_assert!(transparency < 1.0),*)
(* which a release build drops.                                            *)
(***************************************************************************)
\* Material::default(), all fields
MaterialDefault ==
    [pattern |-> "white", ambient |-> 1, diffuse |-> 9, specular |-> 9, shininess |-> 2000,
     reflectivity |-> 0, transparency |-> 0, refractive_index |-> IdxDen]

\* arguments a caller may pass: any f64, here some inside and some outside
\* the documented ranges
BuilderColors == {"white", "red"}

BuilderPatterns == {"stripe"}

BuilderTenths == {1, 9}

BuilderShininesses == {100, 2000}

BuilderReflectivities == {0 - 1, 0, 1, ReflDen, ReflDen + 1}

BuilderTransparencies == {0 - 1, 0, ReflDen - 1, ReflDen}

BuilderRefractiveIndexes == {0 - IdxDen, 0, IdxDen, IdxDen + 1}

InitBuilder ==
    /\ builtMaterial = MaterialDefault
    /\ debugAssertions \in BOOLEAN
    /\ builderPanicked = FALSE

WithColor(color) ==
    /\ ~builderPanicked
    /\ builtMaterial' = [builtMaterial EXCEPT !.pattern = color]
    /\ UNCHANGED <<debugAssertions, builderPanicked, builderFrame>>

WithPattern(pattern) ==
    /\ ~builderPanicked
    /\ builtMaterial' = [builtMaterial EXCEPT !.pattern = pattern]
    /\ UNCHANGED <<debugAssertions, builderPanicked, builderFrame>>

WithAmbient(ambient) ==
    /\ ~builderPanicked
    /\ builtMaterial' = [builtMaterial EXCEPT !.ambient = ambient]
    /\ UNCHANGED <<debugAssertions, builderPanicked, builderFrame>>

WithDiffuse(diffuse) ==
    /\ ~builderPanicked
    /\ builtMaterial' = [builtMaterial EXCEPT !.diffuse = diffuse]
    /\ UNCHANGED <<debugAssertions, builderPanicked, builderFrame>>

WithSpecular(specular) ==
    /\ ~builderPanicked
    /\ builtMaterial' = [builtMaterial EXCEPT !.specular = specular]
    /\ UNCHANGED <<debugAssertions, builderPanicked, builderFrame>>

WithShininess(shininess) ==
    /\ ~builderPanicked
    /\ builtMaterial' = [builtMaterial EXCEPT !.shininess = shininess]
    /\ UNCHANGED <<debugAssertions, builderPanicked, builderFrame>>

\* with_reflectivity: no check
WithReflectivity(reflectivity) ==
    /\ ~builderPanicked
    /\ builtMaterial' = [builtMaterial EXCEPT !.reflectivity = reflectivity]
    /\ UNCHANGED <<debugAssertions, builderPanicked, builderFrame>>

\* with_transparency: debug_assert!(transparency < 1.0), then both fields
WithTransparency(transparency, refractive_index) ==
    /\ ~builderPanicked
    /\ IF debugAssertions /\ ~(transparency < ReflDen)
       THEN /\ builderPanicked' = TRUE
            /\ UNCHANGED builtMaterial
       ELSE /\ builtMaterial' = [builtMaterial EXCEPT !.transparency = transparency,
                                                      !.refractive_index = refractive_index]
            /\ UNCHANGED builderPanicked
    /\ UNCHANGED <<debugAssertions, builderFrame>>

InitBuilders == InitCoreIdle /\ builderOthersIdle /\ InitBuilder

NextBuilder ==
    \/ \E c \in BuilderColors : WithColor(c)
    \/ \E p \in BuilderPatterns : WithPattern(p)
    \/ \E a \in BuilderTenths : WithAmbient(a)
    \/ \E d \in BuilderTenths : WithDiffuse(d)
    \/ \E s \in BuilderTenths : WithSpecular(s)
    \/ \E s \in BuilderShininesses : WithShininess(s)
    \/ \E r \in BuilderReflectivities : WithReflectivity(r)
    \/ \E t \in BuilderTransparencies, n \in BuilderRefractiveIndexes : WithTransparency(t, n)

SpecBuilder == InitBuilders /\ [][NextBuilder]_vars

(***************************************************************************)
(* C14: every Material reachable from Material::default() through any      *)
(* sequence of with_* calls has reflectivity in [0, 1], transparency in    *)
(* [0, 1) and a refractive index above 0.                                  *)
(***************************************************************************)
C14_BuiltMaterialInRange ==
    /\ 0 <= builtMaterial.reflectivity
    /\ builtMaterial.reflectivity <= ReflDen
    /\ 0 <= builtMaterial.transparency
    /\ builtMaterial.transparency < ReflDen
    /\ builtMaterial.refractive_index > 0

\* how many times h occurs in s
CountOf(s, h) == Cardinality({ i \in 1..Len(s) : s[i] = h })

\* the same intersections, each as many times
SameIntersections(s, r) ==
    /\ Len(s) = Len(r)
    /\ \A i \in 1..Len(s) : CountOf(s, s[i]) = CountOf(r, s[i])

IsPrefix(s, r) == Len(s) <= Len(r) /\ SubSeq(r, 1, Len(s)) = s

(***************************************************************************)
(* C15: after any sequence of add, clear, hit and iter calls, iter yields  *)
(* exactly the intersections added since the last clear, in non-decreasing *)
(* t order; add only appends and never reorders, sorting happens only in   *)
(* hit and iter, and whenever the sorted flag is true the stored list is   *)
(* sorted by t.  Step by step: every call either empties the list, or      *)
(* extends it at the end and clears the flag, or leaves the same           *)
(* intersections in non-decreasing t order with the flag set; and a set    *)
(* flag always comes with a sorted list.                                   *)
(***************************************************************************)
C15_LazilySortedAppendOnly ==
    /\ [](sorted => IsSortedByT(hits))
    /\ [][ \/ hits' = <<>> /\ sorted' = sorted
           \/ /\ IsPrefix(hits, hits')
              /\ Len(hits') > Len(hits)
              /\ ~sorted'
           \/ /\ SameIntersections(hits, hits')
              /\ IsSortedByT(hits')
              /\ sorted'
              /\ (sorted => hits' = hits) ]_vars

\* three intersections of distinct t stored in order with the flag set: hit
\* or iter has run since the last add
C15_Witness ==
    /\ sorted
    /\ Len(hits) = 3
    /\ hits[1].t < hits[2].t
    /\ hits[2].t < hits[3].t
    /\ hits[1].object_index = hits[3].object_index
    /\ hits[1].object_index # hits[2].object_index

(***************************************************************************)
(* Camera::view_transform (src/src/camera.rs).  Points are <<x, y, z>> of  *)
(* whole numbers; a vector is numerators over one denominator, 0 when a    *)
(* division by a zero magnitude made it non-finite.  The directions and up *)
(* vectors below have whole magnitudes, so that normalize is exact.        *)
(***************************************************************************)
MaxEye == 1

EyeCoords == (0 - MaxEye)..MaxEye

Eyes == { <<x, y, z>> : x \in EyeCoords, y \in EyeCoords, z \in EyeCoords }

\* to - from of the calls made; <<0, 0, 0>> is the degenerate view to = from
ViewOffsets ==
    { <<0, 0, 0 - 1>>, <<0, 0, 1>>, <<0, 0, 0 - 8>>, <<3, 4, 0>>, <<1, 0, 0>>, <<0, 0, 0>> }

ViewUps == { <<0, 1, 0>>, <<0, 2, 0>>, <<0, 0, 0 - 1>> }

\* Point - Point
PointSub(to, from) ==
    [num |-> <<to[1] - from[1], to[2] - from[2], to[3] - from[3]>>, den |-> 1]

\* Vector::normalize: each component divided by the magnitude
VectorNormalize(v) ==
    [num |-> v.num,
     den |-> IF v.den = 0 THEN 0
             ELSE ISqrt(v.num[1] * v.num[1] + v.num[2] * v.num[2] + v.num[3] * v.num[3])]

\* Vector::cross
VectorCross(a, b) ==
    [num |-> <<a.num[2] * b.num[3] - a.num[3] * b.num[2],
               a.num[3] * b.num[1] - a.num[1] * b.num[3],
               a.num[1] * b.num[2] - a.num[2] * b.num[1]>>,
     den |-> a.den * b.den]

\* the rows left, true_up, -forward and 0 0 0 1 over one denominator
ViewOrientation(left, true_up, forward) ==
    LET l == true_up.den * forward.den
        u == left.den * forward.den
        f == left.den * true_up.den
    IN  Normalize([num |-> << <<left.num[1] * l, left.num[2] * l, left.num[3] * l, 0>>,
                              <<true_up.num[1] * u, true_up.num[2] * u, true_up.num[3] * u, 0>>,
                              <<0 - forward.num[1] * f, 0 - forward.num[2] * f,
                                0 - forward.num[3] * f, 0>>,
                              <<0, 0, 0, left.den * true_up.den * forward.den>> >>,
                   den |-> left.den * true_up.den * forward.den])

\* a translation by from instead of -from
ViewTranslationToEye(from) ==
    MatNew(<< <<1, 0, 0, from[1]>>, <<0, 1, 0, from[2]>>, <<0, 0, 1, from[3]>>,
              <<0, 0, 0, 1>> >>)

\* the second factor of view_transform: the translation by -from
ViewTranslation(from) ==
    MatNew(<< <<1, 0, 0, 0 - from[1]>>, <<0, 1, 0, 0 - from[2]>>, <<0, 0, 1, 0 - from[3]>>,
              <<0, 0, 0, 1>> >>)

\* Camera::view_transform
ViewTransformOf(from, to, up) ==
    CHOOSE m \in
      { Mul(ViewOrientation(v.left, VectorCross(v.left, v.forward), v.forward),
            ViewTranslation(from)) :
        v \in { [forward |-> fw, left |-> VectorCross(fw, VectorNormalize([num |-> up, den |-> 1]))] :
                fw \in { VectorNormalize(PointSub(to, from)) } } } : TRUE

PointAdd(p, offset) == <<p[1] + offset[1], p[2] + offset[2], p[3] + offset[3]>>

ViewTransform(from, to, up) ==
    /\ viewOut = None
    /\ viewIn' = [from |-> from, to |-> to, up |-> up]
    /\ viewOut' = Some(ViewTransformOf(from, to, up))
    /\ UNCHANGED viewFrame

InitView ==
    /\ viewIn = [from |-> <<0, 0, 0>>, to |-> <<0, 0, 0 - 1>>, up |-> <<0, 1, 0>>]
    /\ viewOut = None

InitViews == InitCoreIdle /\ viewOthersIdle /\ InitView

NextView ==
    \E from \in Eyes, offset \in ViewOffsets, up \in ViewUps :
        ViewTransform(from, PointAdd(from, offset), up)

SpecView == InitViews /\ [][NextView]_vars

\* the call of the claim: looking down -z from the eye with +y up
LooksDownNegativeZ ==
    /\ viewOut # None
    /\ viewIn.to = PointAdd(viewIn.from, <<0, 0, 0 - 1>>)
    /\ viewIn.up = <<0, 1, 0>>

(***************************************************************************)
(* C16 as stated: for every eye point, view_transform(eye, eye + (0,0,-1), *)
(* (0,1,0)) is the identity matrix.                                        *)
(***************************************************************************)
C16_DefaultViewIsIdentity ==
    LooksDownNegativeZ => viewOut[1] = Identity

(***************************************************************************)
(* C16 amended: for every eye point, view_transform(eye, eye + (0,0,-1),   *)
(* (0,1,0)) is the translation by -eye; it is the identity exactly when    *)
(* the eye is the origin.                                                  *)
(***************************************************************************)
C16_DefaultViewIsTranslationToEye ==
    LooksDownNegativeZ =>
        /\ viewOut[1] = Elementary([op |-> "translate",
                                    args |-> <<0 - viewIn.from[1], 0 - viewIn.from[2],
                                               0 - viewIn.from[3]>>])
        /\ (viewOut[1] = Identity <=> viewIn.from = <<0, 0, 0>>)

\* the default orientation seen from an eye off the origin on every axis
C16_Witness ==
    /\ LooksDownNegativeZ
    /\ viewIn.from[1] # 0
    /\ viewIn.from[2] # 0
    /\ viewIn.from[3] # 0

(***************************************************************************)
(* Canvas::write_ppm (src/src/canvas.rs).  Colour components are in        *)
(* thousandths.  The text written is kept as a sequence of tokens: the     *)
(* magic "P3", a line break, a space, or a number printed in decimal.      *)
(***************************************************************************)
MaxWidth == 12

MaxHeight == 2

\* 1.0 as a colour component
ColorDen == 1000

\* the colours of the tests (1, 0.8, 0.6), (1.5, 0, 0), (-0.5, 0, 1), white,
\* and a grey whose components convert to 100
CanvasColors ==
    { <<1000, 800, 600>>, <<1500, 0, 0>>, <<0 - 500, 0, 1000>>, <<1000, 1000, 1000>>,
      <<392, 392, 392>> }

\* a canvas whose pixels alternate between two colours
Filled(width, height, c1, c2) ==
    [width |-> width, height |-> height,
     pixels |-> [k \in 1..(width * height) |-> IF k % 2 = 1 THEN c1 ELSE c2]]

Magic == [kind |-> "magic", v |-> 0]

Newline == [kind |-> "nl", v |-> 0]

Space == [kind |-> "sp", v |-> 0]

Number(v) == [kind |-> "num", v |-> v]

\* to_int: a float as a clamped u8
ToInt(v) ==
    IF v < 0 THEN 0
    ELSE IF v >= ColorDen THEN 255
    ELSE (v * 256) \div ColorDen

\* the vlen of write_ppm: the length it counts for a value
Vlen(v) == IF v <= 9 THEN 1 ELSE IF v <= 100 THEN 2 ELSE 3

\* the i-th value (from 0) of row y: pixels[offset..offset + width] flattened
RowValue(c, y, i) == ToInt(c.pixels[c.width * y + (i \div 3) + 1][(i % 3) + 1])

RowStart(y) == [y |-> y, i |-> 0, linelen |-> 0, sep |-> ""]

InitCanvas ==
    /\ canvas \in { Filled(w, h, c1, c2) : w \in 1..MaxWidth, h \in 1..MaxHeight,
                                          c1 \in CanvasColors, c2 \in CanvasColors }
    /\ ppmPc = "idle"
    /\ ppmLoop = RowStart(0)
    /\ ppmOut = <<>>

\* the three header lines, then the first row begins
WritePpmHeader ==
    /\ ppmPc = "idle"
    /\ ppmOut' = <<Magic, Newline,
                   Number(canvas.width), Space, Number(canvas.height), Newline,
                   Number(255), Newline>>
    /\ ppmLoop' = RowStart(0)
    /\ ppmPc' = "rows"
    /\ UNCHANGED <<canvas, canvasFrame>>

\* one turn of the loop over the values of the row
WritePpmValue ==
    /\ ppmPc = "rows"
    /\ ppmLoop.y < canvas.height
    /\ ppmLoop.i < 3 * canvas.width
    /\ LET v == RowValue(canvas, ppmLoop.y, ppmLoop.i)
           seplen == IF ppmLoop.sep = "" THEN 0 ELSE 1
       IN  IF ppmLoop.linelen + seplen + Vlen(v) > 70
           THEN /\ ppmOut' = ppmOut \o <<Newline, Number(v)>>
                /\ ppmLoop' = [ppmLoop EXCEPT !.linelen = 0, !.sep = " ", !.i = @ + 1]
           ELSE /\ ppmOut' = ppmOut \o (IF ppmLoop.sep = "" THEN <<>> ELSE <<Space>>)
                                    \o <<Number(v)>>
                /\ ppmLoop' = [ppmLoop EXCEPT !.linelen = @ + seplen + Vlen(v), !.sep = " ",
                                              !.i = @ + 1]
    /\ UNCHANGED <<canvas, ppmPc, canvasFrame>>

\* the line break after the last value of the row; the next row begins
WritePpmEndRow ==
    /\ ppmPc = "rows"
    /\ ppmLoop.y < canvas.height
    /\ ppmLoop.i = 3 * canvas.width
    /\ ppmOut' = Append(ppmOut, Newline)
    /\ ppmLoop' = RowStart(ppmLoop.y + 1)
    /\ UNCHANGED <<canvas, ppmPc, canvasFrame>>

\* flush and Ok(())
WritePpmReturn ==
    /\ ppmPc = "rows"
    /\ ppmLoop.y = canvas.height
    /\ ppmPc' = "done"
    /\ UNCHANGED <<canvas, ppmLoop, ppmOut, canvasFrame>>

InitCanvases == InitCoreIdle /\ canvasOthersIdle /\ InitCanvas

NextCanvas ==
    \/ WritePpmHeader
    \/ WritePpmValue
    \/ WritePpmEndRow
    \/ WritePpmReturn

SpecCanvas == InitCanvases /\ [][NextCanvas]_vars

\* characters a token takes in the text
TokenLen(tok) ==
    CASE tok.kind = "magic" -> 2
      [] tok.kind = "nl" -> 0
      [] tok.kind = "sp" -> 1
      [] tok.kind = "num" -> IF tok.v < 10 THEN 1 ELSE IF tok.v < 100 THEN 2 ELSE 3

\* length of the line that ends at token n of the text
RECURSIVE LineLenUpTo(_, _)
LineLenUpTo(out, n) ==
    IF n = 0 \/ out[n].kind = "nl" THEN 0
    ELSE TokenLen(out[n]) + LineLenUpTo(out, n - 1)

HeaderLen == 8

\* the values of the rows written so far, in order
ValuesWritten(out) ==
    LET nums == SelectSeq(SubSeq(out, HeaderLen + 1, Len(out)), LAMBDA tok : tok.kind = "num")
    IN  [k \in 1..Len(nums) |-> nums[k].v]

\* the values write_ppm has gone through: rows before y whole, row y up to i
ValuesExpected(c, y, i) ==
    [k \in 1..(3 * c.width * y + i) |->
        RowValue(c, (k - 1) \div (3 * c.width), (k - 1) % (3 * c.width))]

(***************************************************************************)
(* C20: no line of the text written by write_ppm is longer than 70         *)
(* characters, for every width, height and pixel colour; each canvas row   *)
(* starts on a new line and its values appear in order, separated by a     *)
(* space or a line break.  (Every line is at some time the last line of    *)
(* the text, so the length of the last line is what is bounded.)           *)
(***************************************************************************)
C20_LinesAtMostSeventy ==
    ppmPc # "idle" =>
        /\ LineLenUpTo(ppmOut, Len(ppmOut)) <= 70
        /\ ValuesWritten(ppmOut) = ValuesExpected(canvas, ppmLoop.y, ppmLoop.i)
        /\ \A n \in (HeaderLen + 1)..Len(ppmOut) :
             ppmOut[n].kind = "num" => ppmOut[n - 1].kind \in {"sp", "nl"}
        /\ (ppmLoop.i = 1 /\ ppmLoop.y < canvas.height) =>
             ppmOut[Len(ppmOut) - 1].kind = "nl"

(***************************************************************************)
(* A chain of recursive rays.  World::color_at is entered with             *)
(* contribution 1.0; each Material::color_at below it may cast a           *)
(* reflection ray (reflectivity > 0) or a refraction ray (transparency > 0 *)
(* and no total internal reflection), whose World::color_at call gets the  *)
(* contribution computed by reflected_color / refracted_color.  The colour *)
(* that call returns (callee) is an input.                                 *)
(***************************************************************************)
MaxDepth == 3

PathCosines == {0, CosDen}

InitPath ==
    /\ pathTotal = ContribDen
    /\ pathSteps = <<>>

\* the reflection ray of the material hit by the innermost call
PathReflect(m, callee) ==
    /\ Len(pathSteps) < MaxDepth
    /\ m.reflectivity > 0
    /\ \E res \in { MaterialReflectedColor(m, pathTotal, callee) } :
          /\ pathTotal' = res.cast[1].total_contribution
          /\ pathSteps' = Append(pathSteps,
                                 [kind |-> "reflection", coefficient |-> m.reflectivity,
                                  contribution |-> pathTotal, callee |-> callee,
                                  passed |-> res.cast[1].total_contribution,
                                  color |-> res.color])
    /\ UNCHANGED pathFrame

\* the refraction ray of the material hit by the innermost call
PathRefract(m, from_material, cos, callee) ==
    /\ Len(pathSteps) < MaxDepth
    /\ m.transparency > 0
    /\ \E res \in { RefractedColor(m, N1(from_material), m.refractive_index, cos,
                                   pathTotal, callee) } :
          /\ res.cast # None
          /\ pathTotal' = res.cast[1].total_contribution
          /\ pathSteps' = Append(pathSteps,
                                 [kind |-> "refraction", coefficient |-> m.transparency,
                                  contribution |-> pathTotal, callee |-> callee,
                                  passed |-> res.cast[1].total_contribution,
                                  color |-> res.color])
    /\ UNCHANGED pathFrame

InitPaths == InitCoreIdle /\ pathOthersIdle /\ InitPath

NextPath ==
    \/ \E m \in Materials, callee \in CalleeColors : PathReflect(m, callee)
    \/ \E m \in Materials, f \in FromMaterials, cos \in PathCosines, callee \in CalleeColors :
          PathRefract(m, f, cos, callee)

SpecPath == InitPaths /\ [][NextPath]_vars

RECURSIVE Pow(_, _)
Pow(b, k) == IF k = 0 THEN 1 ELSE b * Pow(b, k - 1)

\* the product of the first k coefficients of the chain, as a numerator over
\* ReflDen to the k
RECURSIVE CoefficientProduct(_, _)
CoefficientProduct(steps, k) ==
    IF k = 0 THEN 1 ELSE steps[k].coefficient * CoefficientProduct(steps, k - 1)

(***************************************************************************)
(* C21: along any chain of recursive rays started with contribution 1.0,   *)
(* the contribution passed to the next call is the current contribution    *)
(* times the reflectivity (reflection ray) or the transparency (refraction *)
(* ray) of the surface hit, and the colour returned by that call is scaled *)
(* by the same factor; the contribution at depth k is the product of the k *)
(* coefficients along the path and never increases while the coefficients  *)
(* are in [0, 1].                                                          *)
(***************************************************************************)
C21_ContributionIsProductOfCoefficients ==
    /\ \A k \in 1..Len(pathSteps) :
         LET s == pathSteps[k]
         IN  /\ s.passed * ReflDen = s.contribution * s.coefficient
             /\ s.color = s.callee * s.coefficient
             /\ s.contribution = IF k = 1 THEN ContribDen ELSE pathSteps[k - 1].passed
             /\ s.passed = (ContribDen \div Pow(ReflDen, k)) * CoefficientProduct(pathSteps, k)
             /\ s.coefficient <= ReflDen => s.passed <= s.contribution
    /\ pathTotal = IF pathSteps = <<>> THEN ContribDen ELSE pathSteps[Len(pathSteps)].passed

\* a reflection at reflectivity 0.5, then a refraction at transparency 0.5,
\* then a reflection at reflectivity 1.0
C21_Witness ==
    /\ Len(pathSteps) = 3
    /\ pathSteps[1].kind = "reflection"
    /\ pathSteps[1].coefficient = 1
    /\ pathSteps[2].kind = "refraction"
    /\ pathSteps[3].kind = "reflection"
    /\ pathSteps[3].callee # 0
    /\ pathTotal * 4 = ContribDen

(***************************************************************************)
(* World::point_is_shadowed on the axis of the scenes above: the point and *)
(* the light are on the axis, so the shadow ray runs along it, from the    *)
(* point moved one offset toward the light.                                *)
(***************************************************************************)
\* points asked about, in world units: outside every sphere, inside some,
\* and beyond the light at +10
ShadowPoints == { p * OffsetsPerUnit : p \in {0 - 7, 0 - 2, 0, 2, 15} }

\* Vector::magnitude on the axis
Magnitude(v) == IF v < 0 THEN 0 - v ELSE v

\* Vector::normalize on the axis
Normalized(v) == IF v < 0 THEN 0 - 1 ELSE 1

\* World::point_is_shadowed: the shadow ray, its intersections sorted by hit,
\* what hit returned, and the result
PointIsShadowedOf(objs, l, point) ==
    LET to_light == l - point
        to_light_norm == Normalized(to_light)
        to_light_ray == [origin |-> point + to_light_norm * Offset,
                         direction |-> to_light_norm]
    IN  CHOOSE r \in
          { [called |-> TRUE, point |-> point, ray |-> to_light_ray, inters |-> inters,
             hit |-> res, distance |-> Magnitude(to_light),
             result |-> IF res.inter # None THEN res.inter[1].t < Magnitude(to_light)
                        ELSE FALSE] :
            inters \in { StableSortByT(WorldIntersect(objs, to_light_ray.origin,
                                                      to_light_ray.direction)) },
            res \in { HitOf(StableSortByT(WorldIntersect(objs, to_light_ray.origin,
                                                         to_light_ray.direction))) } } : TRUE

PointIsShadowed(point) ==
    /\ pc # "call"
    /\ point # light
    /\ shadow' = PointIsShadowedOf(objects, light, point)
    /\ UNCHANGED shadowFrame

InitShadow == InitCoreIdle /\ shadowOthersIdle /\ shadow = [called |-> FALSE]

NextShadow ==
    \/ \E obj \in Catalog : AddObject(obj)
    \/ \E l \in LightPositions : SetLight(l)
    \/ \E p \in ShadowPoints : PointIsShadowed(p)

SpecShadow == InitShadow /\ [][NextShadow]_vars

(***************************************************************************)
(* C22: point_is_shadowed(p) is true if and only if the shadow ray from p  *)
(* (moved 0.01 toward the light) has its nearest intersection of           *)
(* non-negative t at a t smaller than the distance from p to the light;    *)
(* objects wholly behind the point or wholly beyond the light cast no      *)
(* shadow on p, and with no intersection p is not shadowed.                *)
(***************************************************************************)
C22_ShadowedIffNearerThanLight ==
    shadow.called =>
        (shadow.result <=>
           \E i \in 1..Len(shadow.inters) :
              /\ shadow.inters[i].t >= 0
              /\ shadow.inters[i].t < shadow.distance)

(***************************************************************************)
(* World::precompute and Comps::prepare: the eye vector and the normal     *)
(* used for shading.  Vectors are <<x, y, z>> of whole numbers; the normal *)
(* the object returns at the point is an input.                            *)
(***************************************************************************)
MaxComponent == 1

Components == (0 - MaxComponent)..MaxComponent

Vectors3 == { <<x, y, z>> : x \in Components, y \in Components, z \in Components }

\* Vector::dot
Dot(a, b) == a[1] * b[1] + a[2] * b[2] + a[3] * b[3]

\* Neg for Vector
Negated(a) == <<0 - a[1], 0 - a[2], 0 - a[3]>>

\* prepare testing the normal against the ray direction instead of the eye
PrepareAgainstDirection(normal, direction) ==
    LET eyev == Negated(direction)
        inside == Dot(normal, direction) < 0
    IN  [eyev |-> eyev, inside |-> inside,
         normalv |-> IF inside THEN Negated(normal) ELSE normal]

\* Comps::prepare (World::precompute computes the same eyev and normalv)
PrepareOf(normal, direction) ==
    LET eyev == Negated(direction)
        inside == Dot(normal, eyev) < 0
    IN  [eyev |-> eyev, inside |-> inside,
         normalv |-> IF inside THEN Negated(normal) ELSE normal]

InitComps ==
    /\ compsIn = [direction |-> <<0, 0, 1>>, normal |-> <<0, 0, 0 - 1>>]
    /\ compsOut = None

Prepare(normal, direction) ==
    /\ compsOut = None
    /\ compsIn' = [direction |-> direction, normal |-> normal]
    /\ compsOut' = Some(PrepareOf(normal, direction))
    /\ UNCHANGED compsFrame

InitPrepare == InitCoreIdle /\ compsOthersIdle /\ InitComps

NextPrepare == \E normal \in Vectors3, direction \in Vectors3 : Prepare(normal, direction)

SpecPrepare == InitPrepare /\ [][NextPrepare]_vars

(***************************************************************************)
(* C23: the normal used for shading never opposes the eye vector: after    *)
(* the precompute step (eye = -ray.direction) normal . eye >= 0, and the   *)
(* normal is negated exactly when the unflipped normal has a negative dot  *)
(* product with the eye vector.                                            *)
(***************************************************************************)
C23_NormalNeverOpposesEye ==
    compsOut # None =>
        LET out == compsOut[1]
            opposes == Dot(compsIn.normal, Negated(compsIn.direction)) < 0
        IN  /\ out.eyev = Negated(compsIn.direction)
            /\ Dot(out.normalv, out.eyev) >= 0
            /\ out.inside <=> opposes
            /\ out.normalv = IF opposes THEN Negated(compsIn.normal) ELSE compsIn.normal

\* a ray leaving a solid: the normal points along the ray and is negated
C23_Witness ==
    /\ compsOut # None
    /\ compsIn.direction = <<0, 0, 1>>
    /\ compsIn.normal = <<0, 0, 1>>
    /\ compsOut[1].inside
    /\ compsOut[1].normalv = <<0, 0, 0 - 1>>

(***************************************************************************)
(* The intersect methods of the shapes, on object-space rays.  Origins are *)
(* whole numbers.  A t of the cube or the plane is a fraction num / den    *)
(* with den > 0; den = 0 stands for the non-finite values f64 produces:    *)
(* num = 1 for +infinity, -1 for -infinity, 0 for NaN.  A t of the sphere  *)
(* keeps the ingredients of (-b +- sqrt(discriminant)) / (2a).             *)
(***************************************************************************)
MaxOrigin == 2

OriginCoords == (0 - MaxOrigin)..MaxOrigin

ShapeOrigins == { <<x, y, z>> : x \in OriginCoords, y \in OriginCoords, z \in OriginCoords }

\* directions of the rays cast at the sphere and the cube
ShapeDirections ==
    { <<x, y, z>> : x \in {0 - 1, 0, 1}, y \in {0 - 1, 0, 1}, z \in {0 - 1, 0, 1} }
      \ { <<0, 0, 0>> }

\* direction components of the rays cast at the plane are in millionths
DirDen == 1000000

\* 0.00001 in millionths
PlaneEpsilon == 10

PlaneDirections ==
    { <<0, y, DirDen>> : y \in {0, 9, 0 - 9, 10, 0 - 10, DirDen, 0 - DirDen} }

Sign(n) == IF n < 0 THEN 0 - 1 ELSE IF n > 0 THEN 1 ELSE 0

\* n / d for d # 0, with a positive denominator
Quotient(n, d) == [num |-> n * Sign(d), den |-> Abs(d)]

\* n * f64::INFINITY
TimesInfinity(n) == [num |-> Sign(n), den |-> 0]

IsNaN(a) == a.num = 0 /\ a.den = 0

\* a < b on f64: false when either is NaN
Lt(a, b) ==
    /\ ~IsNaN(a)
    /\ ~IsNaN(b)
    /\ IF a.den = 0 /\ b.den = 0 THEN a.num < b.num ELSE a.num * b.den < b.num * a.den

\* a <= b on f64
Le(a, b) ==
    /\ ~IsNaN(a)
    /\ ~IsNaN(b)
    /\ IF a.den = 0 /\ b.den = 0 THEN a.num <= b.num ELSE a.num * b.den <= b.num * a.den

\* f64::max and f64::min: a NaN operand is ignored
FMax(a, b) == IF IsNaN(a) THEN b ELSE IF IsNaN(b) THEN a ELSE IF Lt(a, b) THEN b ELSE a

FMin(a, b) == IF IsNaN(a) THEN b ELSE IF IsNaN(b) THEN a ELSE IF Lt(b, a) THEN b ELSE a

\* Sphere::intersect adding only when the discriminant is positive
SphereAddsStrict(origin, direction, object_index) ==
    LET a == Dot(direction, direction)
        b == 2 * Dot(direction, origin)
        c == Dot(origin, origin) - 1
        discriminant == b * b - 4 * a * c
    IN  IF discriminant > 0
        THEN << Intersection([neg_b |-> 0 - b, sign |-> 0 - 1, root |-> discriminant,
                              den |-> a * 2], object_index),
                Intersection([neg_b |-> 0 - b, sign |-> 1, root |-> discriminant,
                              den |-> a * 2], object_index) >>
        ELSE <<>>

\* Sphere::intersect on the object-space ray: what it adds, in order
SphereAdds(origin, direction, object_index) ==
    LET a == Dot(direction, direction)
        b == 2 * Dot(direction, origin)
        c == Dot(origin, origin) - 1
        discriminant == b * b - 4 * a * c
    IN  IF discriminant >= 0
        THEN << Intersection([neg_b |-> 0 - b, sign |-> 0 - 1, root |-> discriminant,
                              den |-> a * 2], object_index),
                Intersection([neg_b |-> 0 - b, sign |-> 1, root |-> discriminant,
                              den |-> a * 2], object_index) >>
        ELSE <<>>

\* check_axis of Cube::intersect; a whole-number direction is 0 or at least
\* f64::EPSILON in size
CheckAxis(origin, direction) ==
    LET tmin_num == 0 - 1 - origin
        tmax_num == 1 - origin
        tmin == IF direction # 0 THEN Quotient(tmin_num, direction)
                ELSE TimesInfinity(tmin_num)
        tmax == IF direction # 0 THEN Quotient(tmax_num, direction)
                ELSE TimesInfinity(tmax_num)
    IN  IF Lt(tmin, tmax) THEN <<tmin, tmax>> ELSE <<tmax, tmin>>

\* Cube::intersect: what it adds, in order
CubeAdds(origin, direction, object_index) ==
    LET x == CheckAxis(origin[1], direction[1])
        y == CheckAxis(origin[2], direction[2])
        z == CheckAxis(origin[3], direction[3])
        tmin == FMax(FMax(x[1], y[1]), z[1])
        tmax == FMin(FMin(x[2], y[2]), z[2])
    IN  IF Le(tmin, tmax)
        THEN << Intersection(tmin, object_index), Intersection(tmax, object_index) >>
        ELSE <<>>

\* Plane::intersect: what it adds
PlaneAdds(origin, direction, object_index) ==
    IF Abs(direction[2]) < PlaneEpsilon THEN <<>>
    ELSE << Intersection(Quotient((0 - origin[2]) * DirDen, direction[2]), object_index) >>

NoShapeCall == [kind |-> "none"]

\* an intersection another object put in the set earlier
EarlierEntry == Intersection([num |-> 5, den |-> 1], 3)

\* the ObjectIndex the tests pass
ShapeIndexes == {7}

InitShape ==
    /\ shapeCall = NoShapeCall
    /\ shapeBefore \in { <<>>, <<EarlierEntry>> }
    /\ shapeInters = shapeBefore

SphereIntersectCall(origin, direction, object_index) ==
    /\ shapeCall = NoShapeCall
    /\ shapeCall' = [kind |-> "sphere", origin |-> origin, direction |-> direction,
                     object_index |-> object_index]
    /\ shapeInters' = shapeInters \o SphereAdds(origin, direction, object_index)
    /\ UNCHANGED <<shapeBefore, shapeFrame>>

CubeIntersectCall(origin, direction, object_index) ==
    /\ shapeCall = NoShapeCall
    /\ shapeCall' = [kind |-> "cube", origin |-> origin, direction |-> direction,
                     object_index |-> object_index]
    /\ shapeInters' = shapeInters \o CubeAdds(origin, direction, object_index)
    /\ UNCHANGED <<shapeBefore, shapeFrame>>

PlaneIntersectCall(origin, direction, object_index) ==
    /\ shapeCall = NoShapeCall
    /\ shapeCall' = [kind |-> "plane", origin |-> origin, direction |-> direction,
                     object_index |-> object_index]
    /\ shapeInters' = shapeInters \o PlaneAdds(origin, direction, object_index)
    /\ UNCHANGED <<shapeBefore, shapeFrame>>

InitShapes == InitCoreIdle /\ shapeOthersIdle /\ InitShape

NextShape ==
    \/ \E o \in ShapeOrigins, d \in ShapeDirections, i \in ShapeIndexes :
          SphereIntersectCall(o, d, i)
    \/ \E o \in ShapeOrigins, d \in ShapeDirections, i \in ShapeIndexes :
          CubeIntersectCall(o, d, i)
    \/ \E o \in ShapeOrigins, d \in PlaneDirections, i \in ShapeIndexes :
          PlaneIntersectCall(o, d, i)

SpecShape == InitShapes /\ [][NextShape]_vars

\* what the call added to the set
ShapeAdded == SubSeq(shapeInters, Len(shapeBefore) + 1, Len(shapeInters))

\* a quarter of the discriminant of |O + tD|^2 = 1
QuarterDiscriminant(o, d) == Dot(o, d) * Dot(o, d) - Dot(d, d) * (Dot(o, o) - 1)

\* the point O + tD of a finite t is within the cube on every axis
OnCube(o, d, t) ==
    /\ t.den > 0
    /\ \A k \in 1..3 : Abs(o[k] * t.den + t.num * d[k]) <= t.den

CubeNormalStrict(point) ==
    LET x == Abs(point[1])
        y == Abs(point[2])
        z == Abs(point[3])
    IN  IF x >= y
        THEN IF x > z THEN <<point[1], 0, 0>> ELSE <<0, 0, point[3]>>
        ELSE IF y >= z THEN <<0, point[2], 0>> ELSE <<0, 0, point[3]>>

\* Cube::normal
CubeNormal(point) ==
    LET x == Abs(point[1])
        y == Abs(point[2])
        z == Abs(point[3])
    IN  IF x >= y
        THEN IF x >= z THEN <<point[1], 0, 0>> ELSE <<0, 0, point[3]>>
        ELSE IF y >= z THEN <<0, point[2], 0>> ELSE <<0, 0, point[3]>>

InitNormal ==
    /\ normalIn = <<1, 1, 1>>
    /\ normalOut = None

CubeNormalCall(point) ==
    /\ normalOut = None
    /\ normalIn' = point
    /\ normalOut' = Some(CubeNormal(point))
    /\ UNCHANGED normalFrame

InitNormals == InitCoreIdle /\ normalOthersIdle /\ InitNormal

NextNormal == \E p \in ShapeOrigins : CubeNormalCall(p)

SpecNormal == InitNormals /\ [][NextNormal]_vars

\* the axis the claim names for a point: x over y over z among the largest
ClaimedAxis(p) ==
    IF Abs(p[1]) >= Abs(p[2]) /\ Abs(p[1]) >= Abs(p[3]) THEN 1
    ELSE IF Abs(p[2]) >= Abs(p[3]) THEN 2
    ELSE 3

(***************************************************************************)
(* C25: Cube::normal(p) has at most one non-zero component, on the axis    *)
(* where |p| is largest, equal to p's coordinate on that axis; ties go to  *)
(* x over y over z, so the corner (1,1,1) gives (1,0,0).                   *)
(***************************************************************************)
C25_CubeNormalOnLargestAxis ==
    normalOut # None =>
        LET n == normalOut[1]
            axis == ClaimedAxis(normalIn)
        IN  /\ \A k \in 1..3 : n[k] = IF k = axis THEN normalIn[k] ELSE 0
            /\ \A k \in 1..3 : Abs(normalIn[axis]) >= Abs(normalIn[k])
            /\ \A k \in 1..(axis - 1) : Abs(normalIn[k]) < Abs(normalIn[axis])
            /\ normalIn = <<1, 1, 1>> => n = <<1, 0, 0>>

\* a point where x and z tie for the largest magnitude, with opposite signs
C25_Witness ==
    /\ normalOut # None
    /\ normalIn = <<0 - 2, 1, 2>>
    /\ normalOut[1] = <<0 - 2, 0, 0>>

(***************************************************************************)
(* Intersections::hit followed through its for loop: one step per          *)
(* iteration, so that the local containers is visible between iterations.  *)
(***************************************************************************)
\* the lists hit() may find in self.hits
LoopInputs ==
    UNION { [1..n -> {Intersection(t, o) : t \in TRange, o \in ObjectIndexes}] :
            n \in 0..MaxHits }

InitLoop ==
    /\ loopPc = "idle"
    /\ loopHits = <<>>
    /\ loopPos = 0
    /\ loopContainers = <<>>
    /\ loopFrom = None
    /\ loopResult = None

\* self.sort() and the initialisation of the locals
HitEnter(hs) ==
    /\ loopPc = "idle"
    /\ loopPc' = "loop"
    /\ loopHits' = Sort(hs, FALSE)
    /\ loopPos' = 0
    /\ loopContainers' = <<>>
    /\ loopFrom' = None
    /\ loopResult' = None
    /\ UNCHANGED loopFrame

\* one iteration of the for loop, with its return at the first t >= 0
HitIteration ==
    /\ loopPc = "loop"
    /\ loopPos < Len(loopHits)
    /\ LET h == loopHits[loopPos + 1]
           from1 == IF h.t >= 0 THEN LastObject(loopContainers) ELSE loopFrom
           containers1 == Toggle(loopContainers, h)
       IN  /\ loopFrom' = from1
           /\ loopContainers' = containers1
           /\ loopPos' = loopPos + 1
           /\ IF h.t >= 0
              THEN /\ loopPc' = "returned"
                   /\ loopResult' = Some([from |-> from1, inter |-> Last(containers1)])
              ELSE UNCHANGED <<loopPc, loopResult>>
    /\ UNCHANGED <<loopHits, loopFrame>>

\* the loop ran out of intersections: (from_obj, None)
HitExhausted ==
    /\ loopPc = "loop"
    /\ loopPos = Len(loopHits)
    /\ loopPc' = "returned"
    /\ loopResult' = Some([from |-> loopFrom, inter |-> None])
    /\ UNCHANGED <<loopHits, loopPos, loopContainers, loopFrom, loopFrame>>

InitLoops == InitCoreIdle /\ loopOthersIdle /\ InitLoop

NextLoop ==
    \/ \E hs \in LoopInputs : HitEnter(hs)
    \/ HitIteration
    \/ HitExhausted

SpecLoop == InitLoops /\ [][NextLoop]_vars

\* the intersections the loop has processed so far
Processed == SubSeq(loopHits, 1, loopPos)

Occurrences(s, o) == Cardinality({i \in 1..Len(s) : s[i].object_index = o})

\* where object o last occurs in s (0 when it does not)
LastOccurrence(s, o) ==
    LET at == {i \in 1..Len(s) : s[i].object_index = o}
    IN  IF at = {} THEN 0 ELSE CHOOSE i \in at : \A j \in at : j <= i

LoopAgreesWithHitOf ==
    loopPc = "returned" =>
        /\ loopResult[1].from = HitOf(loopHits).from
        /\ loopResult[1].inter = HitOf(loopHits).inter

(***************************************************************************)
(* C27: hit does not add, drop or alter a recorded intersection (it may    *)
(* only reorder them by t), and a hit call that follows another with no    *)
(* add or clear in between returns the same (from, intersection) pair.     *)
(* Step by step: a step that leaves a hit result in place keeps the same   *)
(* intersections, and keeps the earlier result when there was one.         *)
(***************************************************************************)
C27_HitKeepsIntersectionsAndResult ==
    [][ hitResult'.called =>
          /\ SameIntersections(hits, hits')
          /\ IsSortedByT(hits')
          /\ hitResult.called => hitResult' = hitResult ]_vars

\* hit has returned an intersection and its origin object from a list that
\* holds two intersections of the same t on different objects
C27_Witness ==
    /\ hitResult.called
    /\ hitResult.inter # None
    /\ hitResult.from # None
    /\ Len(hits) = 3
    /\ hits[1].t = hits[2].t
    /\ hits[1].object_index # hits[2].object_index

(***************************************************************************)
(* PixelIterator: into_iter on a camera and the calls of next().           *)
(***************************************************************************)
MaxSide == 4

PixelSides == 0..MaxSide

InitPixel ==
    /\ pixIter = None
    /\ pixYielded = <<>>
    /\ pixLast = <<>>

\* <&Camera as IntoIterator>::into_iter
IntoIter(hsize, vsize) ==
    /\ pixIter = None
    /\ pixIter' = Some([hsize |-> hsize, vsize |-> vsize, nextx |-> 0, nexty |-> 0])
    /\ UNCHANGED <<pixYielded, pixLast, pixelFrame>>

\* PixelIterator::next
PixelNext ==
    /\ pixIter # None
    /\ LET self == pixIter[1]
       IN  IF self.nexty < self.vsize
           THEN LET rv == <<self.nextx, self.nexty>>
                    nextx1 == self.nextx + 1
                IN  /\ pixIter' = Some(IF nextx1 >= self.hsize
                                       THEN [self EXCEPT !.nextx = 0, !.nexty = self.nexty + 1]
                                       ELSE [self EXCEPT !.nextx = nextx1])
                    /\ pixYielded' = Append(pixYielded, rv)
                    /\ pixLast' = <<Some(rv)>>
           ELSE /\ pixLast' = <<None>>
                /\ UNCHANGED <<pixIter, pixYielded>>
    /\ UNCHANGED pixelFrame

InitPixels == InitCoreIdle /\ pixelOthersIdle /\ InitPixel

NextPixel ==
    \/ \E h \in PixelSides, v \in PixelSides : IntoIter(h, v)
    \/ PixelNext

SpecPixel == InitPixels /\ [][NextPixel]_vars

\* every (x, y) with x < hsize and y < vsize, x fastest
RowMajor(hsize, vsize) ==
    [k \in 1..(hsize * vsize) |-> <<(k - 1) % hsize, (k - 1) \div hsize>>]

(***************************************************************************)
(* C28: iterating over a camera yields exactly hsize*vsize coordinates,    *)
(* every (x, y) with x < hsize and y < vsize once, in row-major order and  *)
(* never one outside that range; None comes only after the last of them    *)
(* and is then returned by every further call; for all hsize, vsize >= 0.  *)
(***************************************************************************)
C28_PixelIteratorYieldsEachPixelOnce ==
    /\ [](pixIter # None =>
            LET hsize == pixIter[1].hsize
                vsize == pixIter[1].vsize
            IN  /\ Len(pixYielded) <= hsize * vsize
                /\ \A k \in 1..Len(pixYielded) :
                      /\ pixYielded[k][1] < hsize
                      /\ pixYielded[k][2] < vsize
                      /\ pixYielded[k] = RowMajor(hsize, vsize)[k]
                /\ pixLast = <<None>> => Len(pixYielded) = hsize * vsize)
    /\ [][pixLast = <<None>> => pixLast' = <<None>>]_vars

\* the same for cameras at least one pixel wide, or no pixel high
PixelIteratorYieldsEachPixelOnceWhenWide ==
    (pixIter # None /\ (pixIter[1].hsize >= 1 \/ pixIter[1].vsize = 0)) =>
        LET hsize == pixIter[1].hsize
            vsize == pixIter[1].vsize
        IN  /\ Len(pixYielded) <= hsize * vsize
            /\ \A k \in 1..Len(pixYielded) : pixYielded[k] = RowMajor(hsize, vsize)[k]
            /\ pixLast = <<None>> => Len(pixYielded) = hsize * vsize

(***************************************************************************)
(* display: the closure given to event_loop.run, one action per event.     *)
(* A buffer is its length and its fill: "zero" (0u32), "blank" (0x102030)  *)
(* or "scene" (written by Camera::u32_buffer).  The window and the order   *)
(* of events belong to the windowing library: the window may have any      *)
(* inner size, 0 x 0 (a minimised window) included, and Exit is sticky but *)
(* events already queued are still delivered before LoopDestroyed.         *)
(***************************************************************************)
MaxWindowSide == 2

WindowSizes == (0..MaxWindowSide) \X (0..MaxWindowSide)

InitDisplay ==
    /\ display = FALSE
    /\ cur_width = 0
    /\ cur_height = 0
    /\ buffer = [len |-> 0, fill |-> "zero"]
    /\ control_flow = "Poll"
    /\ window_size \in WindowSizes
    /\ eventLoop = "running"
    /\ lastRedraw = None

\* *control_flow = ControlFlow::Wait, on a control flow that stays Exit once
\* it is Exit
EnterClosure == IF control_flow = "Exit" THEN "Exit" ELSE "Wait"

\* what one call of the render closure did: the size it read, the captured
\* state it found, whether it called u32_buffer and the buffers it handed to
\* set_buffer
RedrawRecord(width, height, rendered, shown) ==
    [size |-> <<width, height>>, display |-> display,
     cur |-> <<cur_width, cur_height>>, cached |-> buffer,
     exiting |-> control_flow = "Exit", rendered |-> rendered, shown |-> shown]

\* Event::RedrawRequested: the render closure
RedrawBlack(width, height) ==
    LET shown == [len |-> width * height, fill |-> "zero"]
    IN  /\ buffer' = shown
        /\ lastRedraw' = Some(RedrawRecord(width, height, FALSE, <<shown>>))
        /\ UNCHANGED <<cur_width, cur_height, eventLoop>>

RedrawScene(width, height) ==
    LET blank == [len |-> width * height, fill |-> "blank"]
        scene == [len |-> width * height, fill |-> "scene"]
    IN  IF width # cur_width \/ height # cur_height
        THEN IF width = 0
             THEN \* buf.chunks_mut(0) in u32_buffer panics
                  /\ buffer' = blank
                  /\ lastRedraw' = Some(RedrawRecord(width, height, TRUE, <<blank>>))
                  /\ eventLoop' = "panicked"
                  /\ UNCHANGED <<cur_width, cur_height>>
             ELSE /\ buffer' = scene
                  /\ cur_width' = width
                  /\ cur_height' = height
                  /\ lastRedraw' = Some(RedrawRecord(width, height, TRUE, <<blank, scene>>))
                  /\ UNCHANGED eventLoop
        ELSE /\ lastRedraw' = Some(RedrawRecord(width, height, FALSE, <<buffer>>))
             /\ UNCHANGED <<buffer, cur_width, cur_height, eventLoop>>

RedrawRequested ==
    /\ eventLoop = "running"
    /\ control_flow' = EnterClosure
    /\ IF ~display
       THEN RedrawBlack(window_size[1], window_size[2])
       ELSE RedrawScene(window_size[1], window_size[2])
    /\ UNCHANGED <<display, window_size, displayFrame>>

\* DeviceEvent::Key with VirtualKeyCode::Space
KeySpace ==
    /\ eventLoop = "running"
    /\ control_flow' = EnterClosure
    /\ display' = TRUE
    /\ UNCHANGED <<cur_width, cur_height, buffer, window_size, eventLoop, lastRedraw,
                   displayFrame>>

\* DeviceEvent::Key with VirtualKeyCode::Q
KeyQ ==
    /\ eventLoop = "running"
    /\ control_flow' = "Exit"
    /\ UNCHANGED <<display, cur_width, cur_height, buffer, window_size, eventLoop,
                   lastRedraw, displayFrame>>

\* WindowEvent::CloseRequested
CloseRequested ==
    /\ eventLoop = "running"
    /\ control_flow' = "Exit"
    /\ UNCHANGED <<display, cur_width, cur_height, buffer, window_size, eventLoop,
                   lastRedraw, displayFrame>>

\* any other key, CursorMoved (which only prints) and the `_ => {}` arm
OtherEvent ==
    /\ eventLoop = "running"
    /\ control_flow' = EnterClosure
    /\ UNCHANGED <<display, cur_width, cur_height, buffer, window_size, eventLoop,
                   lastRedraw, displayFrame>>

\* the window is resized: WindowEvent::Resized falls in the `_ => {}` arm
Resized(size) ==
    /\ eventLoop = "running"
    /\ size # window_size
    /\ window_size' = size
    /\ control_flow' = EnterClosure
    /\ UNCHANGED <<display, cur_width, cur_height, buffer, eventLoop, lastRedraw,
                   displayFrame>>

\* Event::LoopDestroyed, sent once the control flow is Exit
LoopDestroyed ==
    /\ eventLoop = "running"
    /\ control_flow = "Exit"
    /\ eventLoop' = "destroyed"
    /\ UNCHANGED <<display, cur_width, cur_height, buffer, control_flow, window_size,
                   lastRedraw, displayFrame>>

InitDisplays == InitCoreIdle /\ displayOthersIdle /\ InitDisplay

NextDisplay ==
    \/ RedrawRequested
    \/ KeySpace
    \/ KeyQ
    \/ CloseRequested
    \/ OtherEvent
    \/ \E size \in WindowSizes : Resized(size)
    \/ LoopDestroyed

SpecDisplay == InitDisplays /\ [][NextDisplay]_vars

(***************************************************************************)
(* C29: the scene is ray-traced only on a redraw after Space was pressed   *)
(* whose window size differs from the size last rendered; every redraw     *)
(* before Space shows an all-zero buffer; a redraw at an unchanged size    *)
(* re-shows the cached buffer without rendering; and once Q or a close     *)
(* request has set the control flow to Exit no further render happens.     *)
(***************************************************************************)
C29_RenderOnlyAfterSpaceOnNewSize ==
    lastRedraw # None =>
        LET r == lastRedraw[1]
        IN  /\ r.rendered => (r.display /\ r.size # r.cur)
            /\ ~r.display => \A k \in 1..Len(r.shown) : r.shown[k].fill = "zero"
            /\ (r.display /\ r.size = r.cur) => (~r.rendered /\ r.shown = <<r.cached>>)
            /\ r.exiting => ~r.rendered

\* the same without the clause about Exit
RenderOnlyAfterSpaceOnNewSize ==
    lastRedraw # None =>
        LET r == lastRedraw[1]
        IN  /\ r.rendered => (r.display /\ r.size # r.cur)
            /\ ~r.display => \A k \in 1..Len(r.shown) : r.shown[k].fill = "zero"
            /\ (r.display /\ r.size = r.cur) => (~r.rendered /\ r.shown = <<r.cached>>)

(***************************************************************************)
(* C30: for every sequence of redraw, resize and key events, each buffer   *)
(* handed to set_buffer has a length equal to width*height of the window   *)
(* size read in that same redraw.                                          *)
(***************************************************************************)
C30_BufferLengthMatchesWindow ==
    lastRedraw # None =>
        LET r == lastRedraw[1]
        IN  \A k \in 1..Len(r.shown) : r.shown[k].len = r.size[1] * r.size[2]

\* the same for redraws that do not find a 0 x 0 window after Space with
\* nothing rendered yet
BufferLengthMatchesWindowOnceRendered ==
    (lastRedraw # None /\ ~(lastRedraw[1].display /\ lastRedraw[1].size = <<0, 0>>
                            /\ lastRedraw[1].cur = <<0, 0>>)) =>
        LET r == lastRedraw[1]
        IN  \A k \in 1..Len(r.shown) : r.shown[k].len = r.size[1] * r.size[2]

====
